---- MODULE Spec2Model ----
(***************************************************************************)
(* A model of the state-channel node: the key-value store that persists    *)
(* channels and commitments (KeyValueStorage) and the TakeAction protocol  *)
(* flows that run on top of it.                                            *)
(***************************************************************************)
EXTENDS Integers, Sequences, FiniteSets, TLC

(***************************************************************************)
(* Bounds of the model.                                                    *)
(***************************************************************************)
\* highest version number an argument of a store call carries
MaxVersion == 2
\* number of KeyValueStorage calls in one behaviour
MaxCalls == 1
\* number of TakeAction runs started in one behaviour
MaxRounds == 1

(***************************************************************************)
(* Values.  A record that may be missing is None or Some(v), so that a     *)
(* read of a missing key (undefined in the code) compares with any value.  *)
(***************************************************************************)
None == <<>>
Some(v) == <<v>>

Multisigs == {"m1"}
AppIds == {"a1", "a2"}
FB == "fb"

Max(a, b) == IF a >= b THEN a ELSE b
Min(a, b) == IF a <= b THEN a ELSE b

\* keys of the wrapped storage: this.getKey(<PREFIX>, id)
ChannelKey(m) == <<"channel", m>>
SetupKey(m) == <<"setup", m>>
SetStateKey(h) == <<"setState", h>>
ConditionalKey(h) == <<"conditional", h>>
WithdrawalKey(m) == <<"withdrawal", m>>
\* STORE_SCHEMA_VERSION_KEY
SchemaVersionKey == <<"version", "">>

Keys ==
  {ChannelKey(m) : m \in Multisigs} \cup {SetupKey(m) : m \in Multisigs}
    \cup {SetStateKey(h) : h \in AppIds \cup {FB}}
    \cup {ConditionalKey(h) : h \in AppIds}
    \cup {WithdrawalKey(m) : m \in Multisigs}
    \cup {SchemaVersionKey}

EmptyStorage == [k \in Keys |-> None]

\* arguments of the store calls
AppJson(h, v) == [identityHash |-> h, versionNumber |-> v]
SetStateJson(h, v) == [appIdentityHash |-> h, versionNumber |-> v]
ConditionalJson(h) == [appIdentityHash |-> h]
SetupTx(m) == [to |-> m]
NewChannel(m) ==
  [multisigAddress |-> m,
   userIdentifiers |-> <<"A", "B">>,
   proposedAppInstances |-> <<>>,
   appInstances |-> <<>>,
   freeBalanceAppInstance |-> AppJson(FB, 1),
   monotonicNumProposedApps |-> 1]

(***************************************************************************)
(* Array helpers with the semantics of the JavaScript built-ins the store  *)
(* uses.  Indices are 0-based, as in the code.                             *)
(***************************************************************************)
\* toSearch.findIndex(([idHash]) => idHash === hash): -1 when there is none
findIndex(toSearch, hash) ==
  IF \E i \in 1..Len(toSearch) : toSearch[i][1] = hash
  THEN (CHOOSE i \in 1..Len(toSearch) :
          /\ toSearch[i][1] = hash
          /\ \A j \in 1..(i - 1) : toSearch[j][1] # hash) - 1
  ELSE -1

\* array.splice(start, 1): a negative start counts from the end of the array
splice(array, start) ==
  LET n == Len(array)
      s == IF start < 0 THEN Max(n + start, 0) ELSE Min(start, n)
  IN [i \in 1..(IF s < n THEN n - 1 ELSE n) |->
        IF i <= s THEN array[i] ELSE array[i + 1]]

\* array[idx] = entry
setAt(array, idx, entry) == [array EXCEPT ![idx + 1] = entry]

\* a variant of hasAppIdentityHash that tests existsIndex > 0
hasAppIdentityHashAfterFirst(hash, toSearch) == findIndex(toSearch, hash) > 0

hasAppIdentityHash(hash, toSearch) == findIndex(toSearch, hash) >= 0

(***************************************************************************)
(* Reads.                                                                  *)
(***************************************************************************)
getItem(st, key) == st[key]

\* the schema version this code writes by default
STORE_SCHEMA_VERSION == 1

\* version?.version || 0
getSchemaVersion(st) ==
  IF getItem(st, SchemaVersionKey) = None THEN 0
  ELSE getItem(st, SchemaVersionKey)[1].version

\* updateSchemaVersion(version): TRUE when it throws before the write
unrecognizedVersion(version) == STORE_SCHEMA_VERSION < version
getStateChannel(st, m) == getItem(st, ChannelKey(m))
getSetStateCommitment(st, h) == getItem(st, SetStateKey(h))
getSetupCommitment(st, m) == getItem(st, SetupKey(m))
getConditionalTransactionCommitment(st, h) == getItem(st, ConditionalKey(h))
getWithdrawalCommitment(st, m) == getItem(st, WithdrawalKey(m))

\* the public identifiers, in the order of their strings
Identifiers == <<"A", "B", "C">>
Before(a, b) ==
  (CHOOSE i \in 1..Len(Identifiers) : Identifiers[i] = a)
    < (CHOOSE i \in 1..Len(Identifiers) : Identifiers[i] = b)

\* array.sort() of identifiers
RECURSIVE sort(_)
sort(array) ==
  IF array = <<>> THEN <<>>
  ELSE LET least == CHOOSE i \in 1..Len(array) :
                      \A j \in 1..Len(array) : ~Before(array[j], array[i])
       IN <<array[least]>>
            \o sort([k \in 1..(Len(array) - 1) |->
                       IF k < least THEN array[k] ELSE array[k + 1]])

\* array.toString(): the elements joined by commas
RECURSIVE toString(_)
toString(array) ==
  IF array = <<>> THEN <<>>
  ELSE IF Len(array) = 1 THEN array
  ELSE <<Head(array), ",">> \o toString(Tail(array))

\* getAllChannels: the records under the channel keys
getAllChannels(st) ==
  {getStateChannel(st, m)[1] : m \in {n \in Multisigs : getStateChannel(st, n) # None}}

\* a variant of getStateChannelByOwners that compares without sorting
getStateChannelByOwnersUnsorted(st, ownerIds) ==
  LET found == {channel \in getAllChannels(st) :
                  toString(channel.userIdentifiers) = toString(ownerIds)}
  IN IF found = {} THEN None ELSE Some(CHOOSE channel \in found : TRUE)

\* store.getStateChannelByOwners(ownerIds)
getStateChannelByOwners(st, ownerIds) ==
  LET found == {channel \in getAllChannels(st) :
                  toString(sort(channel.userIdentifiers)) = toString(sort(ownerIds))}
  IN IF found = {} THEN None ELSE Some(CHOOSE channel \in found : TRUE)


(***************************************************************************)
(* Writes.  A write is issued when the store method is called and settles  *)
(* later: it either takes effect or fails.                                 *)
(***************************************************************************)
Write(key, value) == [key |-> key, value |-> value]
saveStateChannel(ch) == Write(ChannelKey(ch.multisigAddress), Some(ch))
removeStateChannel(m) == Write(ChannelKey(m), None)
saveSetupCommitment(m, c) == Write(SetupKey(m), Some(c))
removeSetupCommitment(m) == Write(SetupKey(m), None)
\* the commitment may be undefined when it is a value read back for a revert
saveSetStateCommitment(h, c) == Write(SetStateKey(h), c)
removeSetStateCommitment(h) == Write(SetStateKey(h), None)
saveConditionalTransactionCommitment(h, c) == Write(ConditionalKey(h), Some(c))
removeConditionalTransactionCommitment(h) == Write(ConditionalKey(h), None)

setItem(st, w) == [st EXCEPT ![w.key] = w.value]

RECURSIVE setItems(_, _)
setItems(st, ws) ==
  IF ws = <<>> THEN st ELSE setItems(setItem(st, Head(ws)), Tail(ws))

Range(s) == {s[i] : i \in 1..Len(s)}

updateSchemaVersion(version) ==
  [channel |-> None, old |-> None,
   writes |-> <<Write(SchemaVersionKey, Some([version |-> version]))>>]

(***************************************************************************)
(* KeyValueStorage methods up to the point where their writes are issued.  *)
(* Each yields the local `channel` object as the method has mutated it,    *)
(* the commitment read back for the revert (`old`), and the writes handed  *)
(* to Promise.all, in the order of the array.                              *)
(***************************************************************************)
createStateChannel(stateChannel, signedSetupCommitment, signedFreeBalanceUpdate) ==
  [channel |-> Some(stateChannel),
   old |-> None,
   writes |->
     <<saveStateChannel(stateChannel),
       saveSetupCommitment(stateChannel.multisigAddress, signedSetupCommitment),
       saveSetStateCommitment(stateChannel.freeBalanceAppInstance.identityHash,
                              Some(signedFreeBalanceUpdate))>>]

createAppInstance(st, m, appInstance, freeBalanceAppInstance, signedFreeBalanceUpdate, signedConditionalTxCommitment) ==
  LET fetched == getStateChannel(st, m)[1]
      oldFreeBalanceUpdate ==
        getSetStateCommitment(st, freeBalanceAppInstance.identityHash)
      \* channel.appInstances.push([appInstance.identityHash, appInstance])
      pushed ==
        [fetched EXCEPT
           !.appInstances = Append(@, <<appInstance.identityHash, appInstance>>)]
      idx == findIndex(pushed.proposedAppInstances, appInstance.identityHash)
      \* channel.proposedAppInstances.splice(idx, 1)
      channel == [pushed EXCEPT !.proposedAppInstances = splice(@, idx)]
  IN [channel |-> Some(channel),
      old |-> oldFreeBalanceUpdate,
      writes |->
        <<saveStateChannel(
            [channel EXCEPT !.freeBalanceAppInstance = freeBalanceAppInstance]),
          saveSetStateCommitment(freeBalanceAppInstance.identityHash,
                                 Some(signedFreeBalanceUpdate)),
          saveConditionalTransactionCommitment(appInstance.identityHash,
                                               signedConditionalTxCommitment)>>]

updateAppInstance(st, m, appInstance, signedSetStateCommitment) ==
  LET fetched == getStateChannel(st, m)[1]
      idx == findIndex(fetched.appInstances, appInstance.identityHash)
      \* channel.appInstances[idx] = [appInstance.identityHash, appInstance]
      channel ==
        [fetched EXCEPT
           !.appInstances = setAt(@, idx, <<appInstance.identityHash, appInstance>>)]
      oldCommitment == getSetStateCommitment(st, appInstance.identityHash)
  IN [channel |-> Some(channel),
      old |-> oldCommitment,
      writes |->
        <<saveStateChannel(channel),
          saveSetStateCommitment(appInstance.identityHash,
                                 Some(signedSetStateCommitment))>>]

removeAppInstance(st, m, appIdentityHash, freeBalanceAppInstance, signedFreeBalanceUpdate) ==
  LET fetched == getStateChannel(st, m)[1]
      idx == findIndex(fetched.appInstances, appIdentityHash)
      \* channel.appInstances.splice(idx, 1)
      channel == [fetched EXCEPT !.appInstances = splice(@, idx)]
      oldFreeBalanceUpdate ==
        getSetStateCommitment(st, channel.freeBalanceAppInstance.identityHash)
  IN [channel |-> Some(channel),
      old |-> oldFreeBalanceUpdate,
      writes |->
        <<saveStateChannel(
            [channel EXCEPT !.freeBalanceAppInstance = freeBalanceAppInstance]),
          saveSetStateCommitment(channel.freeBalanceAppInstance.identityHash,
                                 Some(signedFreeBalanceUpdate))>>]

createAppProposal(st, m, appInstance, monotonicNumProposedApps, signedSetStateCommitment) ==
  LET fetched == getStateChannel(st, m)[1]
      \* channel.proposedAppInstances.push([appInstance.identityHash, appInstance])
      channel ==
        [fetched EXCEPT
           !.proposedAppInstances =
              Append(@, <<appInstance.identityHash, appInstance>>)]
  IN [channel |-> Some(channel),
      old |-> None,
      writes |->
        <<saveStateChannel(
            [channel EXCEPT !.monotonicNumProposedApps = monotonicNumProposedApps]),
          saveSetStateCommitment(appInstance.identityHash,
                                 Some(signedSetStateCommitment))>>]

removeAppProposal(st, m, appIdentityHash) ==
  LET fetched == getStateChannel(st, m)[1]
      idx == findIndex(fetched.proposedAppInstances, appIdentityHash)
      channel == [fetched EXCEPT !.proposedAppInstances = splice(@, idx)]
  IN [channel |-> Some(channel),
      old |-> None,
      writes |-> <<saveStateChannel(channel)>>]

(***************************************************************************)
(* The catch blocks.  `const oldChannel = channel` copies a reference, not *)
(* the object: what the catch block saves as the old channel is the local  *)
(* object with every mutation the method made to it before the writes.     *)
(***************************************************************************)
oldChannel(c) == c.channel[1]

createStateChannelCatch(c) ==
  <<removeStateChannel(c.m), removeSetupCommitment(c.m),
    removeSetStateCommitment(c.channel[1].freeBalanceAppInstance.identityHash)>>

createAppInstanceCatch(c) ==
  <<saveStateChannel(oldChannel(c)),
    saveSetStateCommitment(c.fbh, c.old),
    removeConditionalTransactionCommitment(c.h)>>

updateAppInstanceCatch(c) ==
  <<saveStateChannel(oldChannel(c)), saveSetStateCommitment(c.h, c.old)>>

\* the last write of this catch block is issued without await
removeAppInstanceCatch(c) ==
  <<saveStateChannel(oldChannel(c)),
    saveSetStateCommitment(c.channel[1].freeBalanceAppInstance.identityHash, c.old)>>

createAppProposalCatch(c) ==
  <<saveStateChannel(oldChannel(c)), removeSetStateCommitment(c.h)>>

CatchWrites(c) ==
  CASE c.op = "createStateChannel" -> createStateChannelCatch(c)
    [] c.op = "createAppInstance" -> createAppInstanceCatch(c)
    [] c.op = "updateAppInstance" -> updateAppInstanceCatch(c)
    [] c.op = "removeAppInstance" -> removeAppInstanceCatch(c)
    [] c.op = "createAppProposal" -> createAppProposalCatch(c)
    [] OTHER -> <<>>

\* how many writes of the catch block are awaited before the method returns
CatchAwaited(c) ==
  IF c.op = "removeAppInstance" THEN 1 ELSE Len(CatchWrites(c))

\* createStateChannel ends its catch block with `throw e`; the others fall
\* through to the end of the method
CatchOutcome(c) ==
  IF c.op = "createStateChannel" THEN "rejected" ELSE "resolved"

\* methods whose Promise.all sits in a try block
HasCatch(op) == op \notin {"removeAppProposal", "updateSchemaVersion"}

(***************************************************************************)
(* Stores the program reaches through successful calls: the starting       *)
(* points of the store behaviours.                                         *)
(***************************************************************************)
Done(st, body) == setItems(st, body.writes)

AfterSetup ==
  Done(EmptyStorage,
       createStateChannel(NewChannel("m1"), SetupTx("m1"), SetStateJson(FB, 1)))
AfterPropose1 ==
  Done(AfterSetup,
       createAppProposal(AfterSetup, "m1", AppJson("a1", 1), 2, SetStateJson("a1", 1)))
AfterPropose2 ==
  Done(AfterPropose1,
       createAppProposal(AfterPropose1, "m1", AppJson("a2", 1), 3,
                         SetStateJson("a2", 1)))
AfterInstall1 ==
  Done(AfterPropose1,
       createAppInstance(AfterPropose1, "m1", AppJson("a1", 1), AppJson(FB, 2),
                         SetStateJson(FB, 2), ConditionalJson("a1")))
AfterInstall1Propose2 ==
  Done(AfterPropose2,
       createAppInstance(AfterPropose2, "m1", AppJson("a1", 1), AppJson(FB, 2),
                         SetStateJson(FB, 2), ConditionalJson("a1")))

InitStores ==
  {EmptyStorage, AfterSetup, AfterPropose1, AfterPropose2, AfterInstall1,
   AfterInstall1Propose2}


(***************************************************************************)
(* TakeAction protocol: values.                                            *)
(***************************************************************************)
\* the app the protocol runs on, and its channel
TakeActionApp == "a1"
TakeActionMultisig == "m1"
\* params.stateTimeout
StateTimeout == 0
\* the actions of the counter app: the amount to add
Actions == {1}
\* a key that belongs to neither participant
Outsider == "X"

\* getSignerAddressFromPublicIdentifier: one address per identifier
getSignerAddressFromPublicIdentifier(p) == p

\* an ECDSA signature, by what recovery yields from it
Sign(signer, digest) == [signer |-> signer, digest |-> digest]
recover(digest, signature) ==
  IF signature.digest = digest THEN signature.signer ELSE "0x"
\* TRUE when the assertion passes, FALSE when it throws
assertIsValidSignature(expectedSigner, digest, signature) ==
  recover(digest, signature) = expectedSigner

AppInstance(h, v, state) ==
  [identityHash |-> h, versionNumber |-> v, latestState |-> state,
   stateTimeout |-> StateTimeout, latestAction |-> None]

\* AppInstance.setAction(action)
setAction(app, action) == [app EXCEPT !.latestAction = Some(action)]

\* StateChannel.setState(app, newState, stateTimeout), then getAppInstance
setState(app, newState, stateTimeout) ==
  [app EXCEPT !.latestState = newState, !.versionNumber = @ + 1,
              !.stateTimeout = stateTimeout]

\* applyAction of the counter app
computeStateTransition(app, action) == app.latestState + action

\* keccak256 of the encoded state: one hash per state
hashOfLatestState(app) == <<"keccak256", app.latestState>>

getSetStateCommitmentFor(app) ==
  [appIdentityHash |-> app.identityHash,
   versionNumber |-> app.versionNumber,
   stateTimeout |-> app.stateTimeout,
   appStateHash |-> hashOfLatestState(app),
   signatures |-> {}]

\* a variant of hashToSign that leaves the version number out of the digest
hashToSignWithoutVersion(c) ==
  <<"0x19", c.appIdentityHash, c.stateTimeout, c.appStateHash>>

\* keccak256(solidityPack(0x19, identityHash, versionNumber, timeout, stateHash))
hashToSign(c) ==
  <<"0x19", c.appIdentityHash, c.versionNumber, c.stateTimeout, c.appStateHash>>

addSignatures(c, signatures) == [c EXCEPT !.signatures = signatures]

\* StateChannel.getAppInstance(appIdentityHash) on a stored channel
getAppInstance(channel, h) ==
  channel.appInstances[findIndex(channel.appInstances, h) + 1][2]

\* the app as the Install protocol left it, with the SetState commitment over
\* its initial state that the Propose protocol had both parties sign
InitialApp == AppInstance(TakeActionApp, 1, 0)
InitialCommitment ==
  LET c == getSetStateCommitmentFor(InitialApp)
  IN addSignatures(c, {Sign(getSignerAddressFromPublicIdentifier(p), hashToSign(c)) :
                         p \in {"A", "B"}})

InstalledStore ==
  setItem(
    Done(AfterPropose1,
         createAppInstance(AfterPropose1, TakeActionMultisig, InitialApp,
                           AppJson(FB, 2), SetStateJson(FB, 2),
                           ConditionalJson(TakeActionApp))),
    saveSetStateCommitment(TakeActionApp, Some(InitialCommitment)))

\* a protocol message: params, and customData.signature
Message(to, from, pid, seq, action, signature) ==
  [to |-> to, from |-> from, processID |-> pid, seq |-> seq,
   appIdentityHash |-> TakeActionApp, action |-> action,
   stateTimeout |-> StateTimeout, signature |-> signature]

UNASSIGNED_SEQ_NO == -1

\* what may arrive as the signature of a message: the one that was sent, or
\* one that a key outside the channel made over the same digest
Received(msg) == {msg.signature, Sign(Outsider, msg.signature.digest)}

NoFlow ==
  [role |-> "none", pc |-> "idle", processID |-> 0, peer |-> "", action |-> 0,
   counterpartySignature |-> None, preAppInstance |-> None,
   appInstance |-> None, setStateCommitment |-> None, mySignature |-> None,
   error |-> "none", message |-> "", validated |-> None]

Versions == 1..MaxVersion
Nonces == 1..(MaxVersion + 1)

\* the two nodes of the channel, each with a store of its own
Parties == {"A", "B"}
Peer(p) == IF p = "A" THEN "B" ELSE "A"

(***************************************************************************)
(* State.  storage, call, pending and snapshot are per node: the wrapped   *)
(* storage, the KeyValueStorage call in progress, the writes in flight and *)
(* the storage as it was when the call started.  flow, net, ops, pre and   *)
(* round belong to the TakeAction protocol.                                *)
(***************************************************************************)
VARIABLES storage, call, pending, snapshot, ncalls, flow, net, ops, pre, round

\* locks and inv belong to the engine methods: the locks that are held and the
\* invocations of the methods
VARIABLES locks, inv

\* read is the read operation in progress on the node's store
VARIABLES read

storeVars == <<storage, call, pending, snapshot, ncalls, read>>
protocolVars == <<flow, net, ops, pre, round>>
engineVars == <<locks, inv>>

\* owners, isExecuted, executions and receipt belong to the multisig wallet
\* contract: its storage, the inner calls it has made and the outcome of the
\* last transaction sent to it
VARIABLES owners, isExecuted, executions, receipt

\* setupDone records that a call of setup has succeeded
VARIABLES setupDone
contractVars == <<owners, isExecuted, executions, receipt, setupDone>>

\* head, chainLogs, parse and posted belong to the chain listener: the chains
\* it reads, its parseLogsFrom call and the events posted on its channels
VARIABLES head, chainLogs, parse, posted

\* enabled and listeners are the listener's flag and the callbacks registered
\* on the registries; handlers are the handlers attached to its two event
\* channels, delivered the deliveries made to them: the kind of the handler
\* and the flag at the time
VARIABLES enabled, listeners, handlers, delivered

\* disabled records that disable() has returned and enable() was not called since
VARIABLES disabled
listenerVars ==
  <<head, chainLogs, parse, posted, enabled, listeners, handlers, delivered,
    disabled>>

\* userTable, channelTable and updateTable are the tables of the hub's database
\* that ChannelService writes, creates the calls of ChannelService.create
VARIABLES userTable, channelTable, updateTable, creates
dbVars == <<userTable, channelTable, updateTable, creates>>

\* commitmentTable is the table of SetStateCommitmentRepository, saving the
\* writes it has started and not seen settle, latest the commitment of the
\* last saveLatestSetStateCommitment that resolved for each app, got the result
\* of the last getLatestSetStateCommitment
VARIABLES commitmentTable, saving, latest, got
commitVars == <<commitmentTable, saving, latest, got>>

\* received are the messages delivered to the callback that
\* connectRequestReponse subscribes, published what it has published
VARIABLES received, published
msgVars == <<received, published>>

\* monitor is the stored list of monitored withdrawals, wcalls the calls of
\* saveUserWithdrawal and removeUserWithdrawal, lastWithdrawal the last of
\* them that wrote the list
VARIABLES monitor, wcalls, lastWithdrawal
wdVars == <<monitor, wcalls, lastWithdrawal>>

\* the hub's services beside the node
serviceVars == <<dbVars, commitVars, msgVars, wdVars>>

\* what the hub's services leave alone
exceptServices == <<storeVars, protocolVars, engineVars, contractVars, listenerVars>>

\* what neither the store nor the TakeAction protocol touches
otherVars == <<engineVars, contractVars, listenerVars, serviceVars>>
vars == <<storeVars, protocolVars, otherVars>>

NoRead ==
  [op |-> "none", pc |-> "idle", arg |-> <<>>, keys |-> {}, outcome |-> "none",
   absent |-> FALSE]

NoCall ==
  [op |-> "none", pc |-> "idle", step |-> 0, m |-> "", h |-> "", fbh |-> "",
   channel |-> None, old |-> None, outcome |-> "none", failed |-> FALSE,
   reverted |-> FALSE]

\* a write in flight; `awaited` while the method still waits for it
InFlight(w, awaited) == [w |-> w, awaited |-> awaited]

\* the method issues its writes and waits on Promise.all
Issue(p, op, m, h, fbh, body) ==
  /\ call' = [call EXCEPT ![p] =
                [NoCall EXCEPT !.op = op, !.pc = "await", !.m = m, !.h = h,
                               !.fbh = fbh, !.channel = body.channel,
                               !.old = body.old]]
  /\ pending' = [pending EXCEPT ![p] =
                   @ \cup {InFlight(w, TRUE) : w \in Range(body.writes)}]
  /\ UNCHANGED storage

\* the method leaves before any write: `throw` (rejected) or `return` (resolved)
Leave(p, op, m, h, outcome) ==
  /\ call' = [call EXCEPT ![p] =
                [NoCall EXCEPT !.op = op, !.pc = "returned", !.m = m, !.h = h,
                               !.outcome = outcome]]
  /\ UNCHANGED <<storage, pending>>

\* a write in flight takes effect; Promise.all resolves with the last of them
WriteSettles(p, f) ==
  /\ f \in pending[p]
  /\ storage' = [storage EXCEPT ![p] = setItem(@, f.w)]
  /\ pending' = [pending EXCEPT ![p] = @ \ {f}]
  /\ call' = IF call[p].pc = "await" /\ \A g \in pending'[p] : ~g.awaited
             THEN [call EXCEPT ![p].pc = "returned", ![p].outcome = "resolved"]
             ELSE call
  /\ UNCHANGED <<snapshot, ncalls, read, otherVars, protocolVars>>

\* a write in flight fails; Promise.all rejects with the first failure, while
\* the other writes are still in flight and nothing waits for them any more
WriteFails(p, f) ==
  /\ f \in pending[p]
  /\ IF f.awaited
     THEN /\ pending' = [pending EXCEPT ![p] =
                           {InFlight(g.w, FALSE) : g \in @ \ {f}}]
          /\ call' = IF HasCatch(call[p].op)
                     THEN [call EXCEPT ![p].pc = "catch", ![p].step = 1,
                                       ![p].failed = TRUE]
                     ELSE [call EXCEPT ![p].pc = "returned",
                                       ![p].outcome = "rejected",
                                       ![p].failed = TRUE]
     ELSE /\ pending' = [pending EXCEPT ![p] = @ \ {f}]
          /\ UNCHANGED call
  /\ UNCHANGED <<storage, snapshot, ncalls, read, otherVars, protocolVars>>

\* the catch block performs its next write; the awaited ones take effect before
\* it goes on, the one that is not awaited is left in flight
CatchStep(p) ==
  /\ call[p].pc = "catch"
  /\ LET c == call[p]
         ws == CatchWrites(c)
         last == c.step = Len(ws)
     IN /\ IF c.step <= CatchAwaited(c)
           THEN /\ storage' = [storage EXCEPT ![p] = setItem(@, ws[c.step])]
                /\ UNCHANGED pending
           ELSE /\ pending' = [pending EXCEPT ![p] =
                                 @ \cup {InFlight(ws[c.step], FALSE)}]
                /\ UNCHANGED storage
        /\ call' = IF last
                   THEN [call EXCEPT ![p].pc = "returned", ![p].reverted = TRUE,
                                     ![p].outcome = CatchOutcome(c)]
                   ELSE [call EXCEPT ![p].step = @ + 1]
  /\ UNCHANGED <<snapshot, ncalls, read, otherVars, protocolVars>>

\* an awaited write of the catch block fails: the catch block throws
CatchFails(p) ==
  /\ call[p].pc = "catch"
  /\ call[p].step <= CatchAwaited(call[p])
  /\ call' = [call EXCEPT ![p].pc = "returned", ![p].outcome = "rejected"]
  /\ UNCHANGED <<storage, pending, snapshot, ncalls, read, otherVars, protocolVars>>

(***************************************************************************)
(* The store on its own: one node, whose caller makes one call at a time,  *)
(* each after the writes of the last have settled.                         *)
(***************************************************************************)
Node == "A"

CanCall ==
  call[Node].pc \in {"idle", "returned"} /\ pending[Node] = {} /\ ncalls < MaxCalls

\* what the store held when the call was made is kept for the properties
Called ==
  /\ snapshot' = [snapshot EXCEPT ![Node] = storage[Node]]
  /\ ncalls' = ncalls + 1
  /\ UNCHANGED <<read, protocolVars, otherVars>>

CallCreateStateChannel(m) ==
  /\ CanCall
  /\ Issue(Node, "createStateChannel", m, "", FB,
           createStateChannel(NewChannel(m), SetupTx(m), SetStateJson(FB, 1)))
  /\ Called

CallCreateAppInstance(m, h, v) ==
  /\ CanCall
  /\ IF getStateChannel(storage[Node], m) = None
     THEN Leave(Node, "createAppInstance", m, h, "rejected")
     ELSE IF hasAppIdentityHash(h, getStateChannel(storage[Node], m)[1].appInstances)
     THEN Leave(Node, "createAppInstance", m, h, "rejected")
     ELSE Issue(Node, "createAppInstance", m, h, FB,
                createAppInstance(storage[Node], m, AppJson(h, 1), AppJson(FB, v),
                                  SetStateJson(FB, v), ConditionalJson(h)))
  /\ Called

CallUpdateAppInstance(m, h, v) ==
  /\ CanCall
  /\ IF getStateChannel(storage[Node], m) = None
     THEN Leave(Node, "updateAppInstance", m, h, "rejected")
     ELSE IF ~hasAppIdentityHash(h, getStateChannel(storage[Node], m)[1].appInstances)
     THEN Leave(Node, "updateAppInstance", m, h, "rejected")
     ELSE Issue(Node, "updateAppInstance", m, h, FB,
                updateAppInstance(storage[Node], m, AppJson(h, v),
                                  SetStateJson(h, v)))
  /\ Called

CallRemoveAppInstance(m, h, v) ==
  /\ CanCall
  /\ IF getStateChannel(storage[Node], m) = None
     THEN Leave(Node, "removeAppInstance", m, h, "resolved")
     ELSE IF ~hasAppIdentityHash(h, getStateChannel(storage[Node], m)[1].appInstances)
     THEN Leave(Node, "removeAppInstance", m, h, "resolved")
     ELSE Issue(Node, "removeAppInstance", m, h, FB,
                removeAppInstance(storage[Node], m, h, AppJson(FB, v),
                                  SetStateJson(FB, v)))
  /\ Called

CallCreateAppProposal(m, h, n) ==
  /\ CanCall
  /\ IF getStateChannel(storage[Node], m) = None
     THEN Leave(Node, "createAppProposal", m, h, "rejected")
     ELSE IF hasAppIdentityHash(
               h, getStateChannel(storage[Node], m)[1].proposedAppInstances)
     THEN Leave(Node, "createAppProposal", m, h, "rejected")
     ELSE Issue(Node, "createAppProposal", m, h, FB,
                createAppProposal(storage[Node], m, AppJson(h, 1), n,
                                  SetStateJson(h, 1)))
  /\ Called

CallRemoveAppProposal(m, h) ==
  /\ CanCall
  /\ IF getStateChannel(storage[Node], m) = None
     THEN Leave(Node, "removeAppProposal", m, h, "resolved")
     ELSE IF ~hasAppIdentityHash(
                h, getStateChannel(storage[Node], m)[1].proposedAppInstances)
     THEN Leave(Node, "removeAppProposal", m, h, "resolved")
     ELSE Issue(Node, "removeAppProposal", m, h, FB,
                removeAppProposal(storage[Node], m, h))
  /\ Called

CallUpdateSchemaVersion(version) ==
  /\ CanCall
  /\ IF unrecognizedVersion(version)
     THEN Leave(Node, "updateSchemaVersion", "", "", "rejected")
     ELSE Issue(Node, "updateSchemaVersion", "", "", FB,
                updateSchemaVersion(version))
  /\ Called

(***************************************************************************)
(* The read operations.  Nothing orders a read against the method that is  *)
(* writing: getRequiredLockNames reads the store before any lock is held.  *)
(* A read of one key is one await; a read over getAllChannels awaits the   *)
(* keys and then each record.                                              *)
(***************************************************************************)
\* the reads of one key: the operation, its key and what it returns
ItemReads ==
  {<<"getStateChannel", ChannelKey(m)>> : m \in Multisigs}
    \cup {<<"getSetupCommitment", SetupKey(m)>> : m \in Multisigs}
    \cup {<<"getSetStateCommitment", SetStateKey(h)>> : h \in AppIds}
    \cup {<<"getConditionalTransactionCommitment", ConditionalKey(h)>> : h \in AppIds}
    \cup {<<"getWithdrawalCommitment", WithdrawalKey(m)>> : m \in Multisigs}

\* the reads that go through getAllChannels, and their arguments
ChannelReads ==
  {<<"getStateChannelByOwners", ids>> : ids \in {<<"A", "B">>, <<"A", "C">>}}
    \cup {<<op, h>> : op \in {"getAppInstance", "getAppProposal"}, h \in AppIds}

\* getItem and the test of the getter on what it returns
ReadItem(op, key) ==
  /\ read.pc = "idle"
  /\ LET item == getItem(storage[Node], key)
     IN read' = [NoRead EXCEPT !.op = op, !.pc = "done", !.arg = key,
                               !.outcome = IF item = None THEN "undefined" ELSE "value",
                               !.absent = item = None]
  /\ UNCHANGED <<storage, call, pending, snapshot, ncalls, protocolVars, otherVars>>

\* getAllChannels: the keys of the channels the storage holds
ReadKeys(op, arg) ==
  /\ read.pc = "idle"
  /\ read' = [NoRead EXCEPT !.op = op, !.pc = "getItem", !.arg = arg,
                            !.keys = {ChannelKey(m) : m \in {n \in Multisigs :
                                        getItem(storage[Node], ChannelKey(n)) # None}}]
  /\ UNCHANGED <<storage, call, pending, snapshot, ncalls, protocolVars, otherVars>>

\* channels.find of getStateChannelByAppIdentityHash
getStateChannelByAppIdentityHash(channels, appIdentityHash) ==
  LET found == {channel \in channels :
                  \/ hasAppIdentityHash(appIdentityHash, channel.proposedAppInstances)
                  \/ hasAppIdentityHash(appIdentityHash, channel.appInstances)
                  \/ channel.freeBalanceAppInstance.identityHash = appIdentityHash}
  IN IF found = {} THEN None ELSE Some(CHOOSE channel \in found : TRUE)

\* what the read returns from the channels it was given
ReadResult(op, arg, channels) ==
  CASE op = "getStateChannelByOwners" ->
         IF \E channel \in channels :
              toString(sort(channel.userIdentifiers)) = toString(sort(arg))
         THEN "value" ELSE "undefined"
    [] op = "getAppInstance" ->
         LET channel == getStateChannelByAppIdentityHash(channels, arg)
         IN IF channel = None THEN "undefined"
            ELSE IF ~hasAppIdentityHash(arg, channel[1].appInstances) THEN "undefined"
            ELSE "value"
    [] op = "getAppProposal" ->
         LET channel == getStateChannelByAppIdentityHash(channels, arg)
         IN IF channel = None THEN "undefined"
            ELSE IF ~hasAppIdentityHash(arg, channel[1].proposedAppInstances)
            THEN "undefined"
            ELSE "value"

\* the rest of getAllChannels and the find: each listed key is read and its
\* record converted, and properlyConvertChannelNullVals reads a property of
\* what getItem returned, which is undefined when the record has gone
ReadRecords ==
  /\ read.pc = "getItem"
  /\ LET records == {getItem(storage[Node], key) : key \in read.keys}
         channels == {record[1] : record \in records \ {None}}
         stored == {getItem(storage[Node], ChannelKey(m))[1] :
                      m \in {n \in Multisigs : getItem(storage[Node], ChannelKey(n)) # None}}
     IN read' = [read EXCEPT !.pc = "done",
                             !.outcome = IF None \in records THEN "TypeError"
                                         ELSE ReadResult(read.op, read.arg, channels),
                             !.absent = ReadResult(read.op, read.arg, stored) = "undefined"]
  /\ UNCHANGED <<storage, call, pending, snapshot, ncalls, protocolVars, otherVars>>

(***************************************************************************)
(* TakeAction protocol: the two flows.  A flow runs under the channel lock *)
(* of its node, one at a time; the engine performs each yielded opcode     *)
(* and resumes the flow with its result.                                   *)
(***************************************************************************)
LockFree(p) == flow[p].pc \in {"idle", "done", "aborted"}

Yield(p, op) == ops' = [ops EXCEPT ![p] = Append(@, op)]

\* the flow throws
Abort(p, error) ==
  flow' = [flow EXCEPT ![p].pc = "aborted", ![p].error = error]

\* the flow is resumed with the result of OP_VALIDATE
Validated(f, error) == [f EXCEPT !.validated = Some(error)]

\* if (!!error) throw new Error(error)
ThrowIfError(f, error) ==
  [f EXCEPT !.pc = "aborted", !.error = "validation", !.message = error[1]]

\* PERSIST_APP_INSTANCE, PersistAppType.UpdateInstance: the engine calls
\* updateAppInstance of the node's store
PersistUpdateInstance(p, appInstance, commitment) ==
  LET m == TakeActionMultisig
      h == appInstance.identityHash
  IN IF getStateChannel(storage[p], m) = None
     THEN Leave(p, "updateAppInstance", m, h, "rejected")
     ELSE IF ~hasAppIdentityHash(h, getStateChannel(storage[p], m)[1].appInstances)
     THEN Leave(p, "updateAppInstance", m, h, "rejected")
     ELSE Issue(p, "updateAppInstance", m, h, FB,
                updateAppInstance(storage[p], m, appInstance, commitment))

\* a flow starts on the channel as the node's store holds it
StartFlow(p, role, pid, peer, action, signature) ==
  IF getStateChannel(storage[p], TakeActionMultisig) = None
  THEN /\ flow' = [flow EXCEPT ![p] =
                     [NoFlow EXCEPT !.role = role, !.pc = "aborted",
                                    !.processID = pid, !.peer = peer,
                                    !.error = "No state channel found"]]
       /\ ops' = [ops EXCEPT ![p] = <<>>]
  ELSE /\ flow' = [flow EXCEPT ![p] =
                     [NoFlow EXCEPT
                        !.role = role, !.pc = "validate", !.processID = pid,
                        !.peer = peer, !.action = action,
                        !.counterpartySignature = signature,
                        !.preAppInstance =
                           Some(getAppInstance(
                                  getStateChannel(storage[p], TakeActionMultisig)[1],
                                  TakeActionApp))]]
       /\ ops' = [ops EXCEPT ![p] = <<<<"OP_VALIDATE">>>>]

\* initiateProtocol(takeAction, params): the flow runs up to OP_VALIDATE
Initiate(p, action) ==
  /\ LockFree(p)
  /\ pending[p] = {}
  /\ round < MaxRounds
  /\ round' = round + 1
  /\ pre' = [pre EXCEPT ![p] = storage[p]]
  /\ StartFlow(p, "initiator", round + 1, Peer(p), action, None)
  /\ UNCHANGED <<storeVars, otherVars, net>>

\* a variant of InitiatorValidated that does not look at the result of
\* OP_VALIDATE
InitiatorValidatedIgnoresError(p, error, transitionOk) ==
  /\ flow[p].role = "initiator" /\ flow[p].pc = "validate"
  /\ IF ~transitionOk
     THEN Abort(p, "transition") /\ UNCHANGED ops
     ELSE LET preAppInstance == flow[p].preAppInstance[1]
              appInstance ==
                setState(preAppInstance,
                         computeStateTransition(preAppInstance, flow[p].action),
                         StateTimeout)
              setStateCommitment == getSetStateCommitmentFor(appInstance)
          IN /\ flow' = [flow EXCEPT ![p].pc = "sign",
                                     ![p].validated = Some(error),
                                     ![p].appInstance = Some(appInstance),
                                     ![p].setStateCommitment =
                                        Some(setStateCommitment)]
             /\ Yield(p, <<"OP_SIGN", hashToSign(setStateCommitment)>>)
  /\ UNCHANGED <<storeVars, otherVars, net, pre, round>>

\* from the result of OP_VALIDATE to OP_SIGN
InitiatorValidated(p, error, transitionOk) ==
  /\ flow[p].role = "initiator" /\ flow[p].pc = "validate"
  /\ IF error # None
     THEN /\ flow' = [flow EXCEPT ![p] = ThrowIfError(Validated(@, error), error)]
          /\ UNCHANGED ops
     ELSE IF ~transitionOk
     THEN Abort(p, "transition") /\ UNCHANGED ops
     ELSE LET preAppInstance == flow[p].preAppInstance[1]
              appInstance ==
                setState(preAppInstance,
                         computeStateTransition(preAppInstance, flow[p].action),
                         StateTimeout)
              setStateCommitment == getSetStateCommitmentFor(appInstance)
          IN /\ flow' = [flow EXCEPT ![p].pc = "sign",
                                     ![p].validated = Some(error),
                                     ![p].appInstance = Some(appInstance),
                                     ![p].setStateCommitment =
                                        Some(setStateCommitment)]
             /\ Yield(p, <<"OP_SIGN", hashToSign(setStateCommitment)>>)
  /\ UNCHANGED <<storeVars, otherVars, net, pre, round>>

\* a variant of InitiatorSigned that persists the app at its new state with
\* the single-signed commitment
InitiatorSignedPersistsNewState(p) ==
  /\ flow[p].role = "initiator" /\ flow[p].pc = "sign"
  /\ LET mySignature ==
           Sign(getSignerAddressFromPublicIdentifier(p),
                hashToSign(flow[p].setStateCommitment[1]))
         setStateCommitment ==
           addSignatures(flow[p].setStateCommitment[1], {mySignature})
     IN /\ flow' = [flow EXCEPT ![p].pc = "persist1",
                                ![p].mySignature = Some(mySignature),
                                ![p].setStateCommitment = Some(setStateCommitment)]
        /\ Yield(p, <<"PERSIST_APP_INSTANCE", flow[p].appInstance[1],
                      setStateCommitment>>)
        /\ PersistUpdateInstance(p, flow[p].appInstance[1], setStateCommitment)
  /\ UNCHANGED <<snapshot, ncalls, read, otherVars, net, pre, round>>

\* a variant of InitiatorSigned that persists the app without latestAction
InitiatorSignedWithoutAction(p) ==
  /\ flow[p].role = "initiator" /\ flow[p].pc = "sign"
  /\ LET mySignature ==
           Sign(getSignerAddressFromPublicIdentifier(p),
                hashToSign(flow[p].setStateCommitment[1]))
         setStateCommitment ==
           addSignatures(flow[p].setStateCommitment[1], {mySignature})
     IN /\ flow' = [flow EXCEPT ![p].pc = "persist1",
                                ![p].mySignature = Some(mySignature),
                                ![p].setStateCommitment = Some(setStateCommitment)]
        /\ Yield(p, <<"PERSIST_APP_INSTANCE", flow[p].preAppInstance[1],
                      setStateCommitment>>)
        /\ PersistUpdateInstance(p, flow[p].preAppInstance[1], setStateCommitment)
  /\ UNCHANGED <<snapshot, ncalls, read, otherVars, net, pre, round>>

\* from the result of OP_SIGN to the first PERSIST_APP_INSTANCE
InitiatorSigned(p) ==
  /\ flow[p].role = "initiator" /\ flow[p].pc = "sign"
  /\ LET mySignature ==
           Sign(getSignerAddressFromPublicIdentifier(p),
                hashToSign(flow[p].setStateCommitment[1]))
         setStateCommitment ==
           addSignatures(flow[p].setStateCommitment[1], {mySignature})
         withAction == setAction(flow[p].preAppInstance[1], flow[p].action)
     IN /\ flow' = [flow EXCEPT ![p].pc = "persist1",
                                ![p].mySignature = Some(mySignature),
                                ![p].setStateCommitment = Some(setStateCommitment)]
        /\ Yield(p, <<"PERSIST_APP_INSTANCE", withAction, setStateCommitment>>)
        /\ PersistUpdateInstance(p, withAction, setStateCommitment)
  /\ UNCHANGED <<snapshot, ncalls, read, otherVars, net, pre, round>>

\* the engine takes the result of the store call
Resume(p) == call' = [call EXCEPT ![p] = NoCall]

\* the first PERSIST_APP_INSTANCE has returned: IO_SEND_AND_WAIT
InitiatorPersisted(p) ==
  /\ flow[p].role = "initiator" /\ flow[p].pc = "persist1"
  /\ call[p].pc = "returned"
  /\ Resume(p)
  /\ IF call[p].outcome = "rejected"
     THEN Abort(p, "persist") /\ UNCHANGED <<ops, net>>
     ELSE /\ flow' = [flow EXCEPT ![p].pc = "wait"]
          /\ Yield(p, <<"IO_SEND_AND_WAIT", flow[p].mySignature[1]>>)
          /\ net' = net \cup {Message(flow[p].peer, p, flow[p].processID, 1,
                                      flow[p].action, flow[p].mySignature[1])}
  /\ UNCHANGED <<storage, pending, snapshot, ncalls, read, otherVars, pre, round>>

\* a variant of InitiatorReceive without assertIsValidSignature
InitiatorReceiveUnverified(p, msg, signature) ==
  /\ flow[p].role = "initiator" /\ flow[p].pc = "wait"
  /\ msg \in net /\ msg.to = p /\ msg.processID = flow[p].processID
  /\ signature \in Received(msg)
  /\ LET setStateCommitment ==
           addSignatures(flow[p].setStateCommitment[1],
                         {flow[p].mySignature[1], signature})
     IN /\ flow' = [flow EXCEPT ![p].pc = "persist2",
                                ![p].counterpartySignature = Some(signature),
                                ![p].setStateCommitment = Some(setStateCommitment)]
        /\ Yield(p, <<"PERSIST_APP_INSTANCE", flow[p].appInstance[1],
                      setStateCommitment>>)
        /\ PersistUpdateInstance(p, flow[p].appInstance[1], setStateCommitment)
  /\ UNCHANGED <<snapshot, ncalls, read, otherVars, net, pre, round>>

\* the reply arrives: from assertIsValidSignature to the second
\* PERSIST_APP_INSTANCE
InitiatorReceive(p, msg, signature) ==
  /\ flow[p].role = "initiator" /\ flow[p].pc = "wait"
  /\ msg \in net /\ msg.to = p /\ msg.processID = flow[p].processID
  /\ signature \in Received(msg)
  /\ LET responderAddr == getSignerAddressFromPublicIdentifier(flow[p].peer)
         setStateCommitmentHash == hashToSign(flow[p].setStateCommitment[1])
         setStateCommitment ==
           addSignatures(flow[p].setStateCommitment[1],
                         {flow[p].mySignature[1], signature})
     IN IF ~assertIsValidSignature(responderAddr, setStateCommitmentHash, signature)
        THEN Abort(p, "signature") /\ UNCHANGED <<ops, storage, call, pending>>
        ELSE /\ flow' = [flow EXCEPT ![p].pc = "persist2",
                                     ![p].counterpartySignature = Some(signature),
                                     ![p].setStateCommitment =
                                        Some(setStateCommitment)]
             /\ Yield(p, <<"PERSIST_APP_INSTANCE", flow[p].appInstance[1],
                           setStateCommitment>>)
             /\ PersistUpdateInstance(p, flow[p].appInstance[1], setStateCommitment)
  /\ UNCHANGED <<snapshot, ncalls, read, otherVars, net, pre, round>>

\* IO_SEND_AND_WAIT times out
InitiatorTimeout(p) ==
  /\ flow[p].role = "initiator" /\ flow[p].pc = "wait"
  /\ Abort(p, "timeout")
  /\ UNCHANGED <<storeVars, otherVars, net, ops, pre, round>>

\* the second PERSIST_APP_INSTANCE has returned: the flow ends
InitiatorFinished(p) ==
  /\ flow[p].role = "initiator" /\ flow[p].pc = "persist2"
  /\ call[p].pc = "returned"
  /\ Resume(p)
  /\ IF call[p].outcome = "rejected"
     THEN Abort(p, "persist")
     ELSE flow' = [flow EXCEPT ![p].pc = "done"]
  /\ UNCHANGED <<storage, pending, snapshot, ncalls, read, otherVars, net, ops, pre, round>>

\* the initiator's message is delivered: the flow runs up to OP_VALIDATE
ResponderReceive(p, msg, signature) ==
  /\ LockFree(p)
  /\ pending[p] = {}
  /\ msg \in net /\ msg.to = p /\ msg.seq = 1
  /\ signature \in Received(msg)
  /\ pre' = [pre EXCEPT ![p] = storage[p]]
  /\ StartFlow(p, "responder", msg.processID, msg.from, msg.action,
               Some(signature))
  /\ UNCHANGED <<storeVars, otherVars, net, round>>

\* a variant of ResponderValidated without assertIsValidSignature
ResponderValidatedUnverified(p, error, transitionOk) ==
  /\ flow[p].role = "responder" /\ flow[p].pc = "validate"
  /\ IF error # None
     THEN /\ flow' = [flow EXCEPT ![p] = ThrowIfError(Validated(@, error), error)]
          /\ UNCHANGED ops
     ELSE IF ~transitionOk
     THEN Abort(p, "transition") /\ UNCHANGED ops
     ELSE LET preAppInstance == flow[p].preAppInstance[1]
              appInstance ==
                setState(preAppInstance,
                         computeStateTransition(preAppInstance, flow[p].action),
                         StateTimeout)
              setStateCommitment == getSetStateCommitmentFor(appInstance)
          IN /\ flow' = [flow EXCEPT ![p].pc = "sign",
                                     ![p].validated = Some(error),
                                     ![p].appInstance = Some(appInstance),
                                     ![p].setStateCommitment =
                                        Some(setStateCommitment)]
             /\ Yield(p, <<"OP_SIGN", hashToSign(setStateCommitment)>>)
  /\ UNCHANGED <<storeVars, otherVars, net, pre, round>>

\* from the result of OP_VALIDATE through assertIsValidSignature to OP_SIGN
ResponderValidated(p, error, transitionOk) ==
  /\ flow[p].role = "responder" /\ flow[p].pc = "validate"
  /\ IF error # None
     THEN /\ flow' = [flow EXCEPT ![p] = ThrowIfError(Validated(@, error), error)]
          /\ UNCHANGED ops
     ELSE IF ~transitionOk
     THEN Abort(p, "transition") /\ UNCHANGED ops
     ELSE LET preAppInstance == flow[p].preAppInstance[1]
              appInstance ==
                setState(preAppInstance,
                         computeStateTransition(preAppInstance, flow[p].action),
                         StateTimeout)
              initiatorAddr == getSignerAddressFromPublicIdentifier(flow[p].peer)
              setStateCommitment == getSetStateCommitmentFor(appInstance)
              setStateCommitmentHash == hashToSign(setStateCommitment)
          IN IF ~assertIsValidSignature(initiatorAddr, setStateCommitmentHash,
                                        flow[p].counterpartySignature[1])
             THEN Abort(p, "signature") /\ UNCHANGED ops
             ELSE /\ flow' = [flow EXCEPT ![p].pc = "sign",
                                          ![p].validated = Some(error),
                                          ![p].appInstance = Some(appInstance),
                                          ![p].setStateCommitment =
                                             Some(setStateCommitment)]
                  /\ Yield(p, <<"OP_SIGN", setStateCommitmentHash>>)
  /\ UNCHANGED <<storeVars, otherVars, net, pre, round>>

\* from the result of OP_SIGN to PERSIST_APP_INSTANCE
ResponderSigned(p) ==
  /\ flow[p].role = "responder" /\ flow[p].pc = "sign"
  /\ LET mySignature ==
           Sign(getSignerAddressFromPublicIdentifier(p),
                hashToSign(flow[p].setStateCommitment[1]))
         setStateCommitment ==
           addSignatures(flow[p].setStateCommitment[1],
                         {mySignature, flow[p].counterpartySignature[1]})
     IN /\ flow' = [flow EXCEPT ![p].pc = "persist",
                                ![p].mySignature = Some(mySignature),
                                ![p].setStateCommitment = Some(setStateCommitment)]
        /\ Yield(p, <<"PERSIST_APP_INSTANCE", flow[p].appInstance[1],
                      setStateCommitment>>)
        /\ PersistUpdateInstance(p, flow[p].appInstance[1], setStateCommitment)
  /\ UNCHANGED <<snapshot, ncalls, read, otherVars, net, pre, round>>

\* PERSIST_APP_INSTANCE has returned: IO_SEND of the reply, and the flow ends
ResponderPersisted(p) ==
  /\ flow[p].role = "responder" /\ flow[p].pc = "persist"
  /\ call[p].pc = "returned"
  /\ Resume(p)
  /\ IF call[p].outcome = "rejected"
     THEN Abort(p, "persist") /\ UNCHANGED <<ops, net>>
     ELSE /\ flow' = [flow EXCEPT ![p].pc = "done"]
          /\ Yield(p, <<"IO_SEND", flow[p].mySignature[1]>>)
          /\ net' = net \cup {Message(flow[p].peer, p, flow[p].processID,
                                      UNASSIGNED_SEQ_NO, flow[p].action,
                                      flow[p].mySignature[1])}
  /\ UNCHANGED <<storage, pending, snapshot, ncalls, read, otherVars, pre, round>>

\* the invocations of chan_proposeInstall, and the app each proposes
Invocations == {"i1", "i2"}
ProposalOf(i) == IF i = "i1" THEN "a1" ELSE "a2"

NoInvocation ==
  [pc |-> "idle", proposedToIdentifier |-> "", names |-> {}, outcome |-> "none",
   error |-> "", failed |-> FALSE, result |-> None]

EngineIdle ==
  /\ locks = {}
  /\ inv = [i \in Invocations |-> NoInvocation]

\* the two events of the ChallengeRegistry, each with a channel of its own
ChallengeEvents == {"ChallengeUpdated", "StateProgressed"}

\* the chains the listener has a provider for, in the order of
\* Object.keys(this.providers)
ChainIds == <<1, 2>>

NoReceipt ==
  [op |-> "none", tx |-> <<>>, signatures |-> <<>>, callee |-> "",
   owners |-> <<>>, hash |-> <<>>, reverted |-> FALSE, reason |-> "",
   executions |-> <<>>]

NoParse ==
  [pc |-> "idle", id |-> 0, startingBlock |-> 0, chain |-> 0,
   currentBlock |-> 0, nChunks |-> 0, index |-> 0, updatedLogs |-> <<>>,
   progressedLogs |-> <<>>, queries |-> <<>>, error |-> ""]

\* the wallet as deployed, before setup
ContractIdle ==
  /\ owners = <<>>
  /\ isExecuted = {}
  /\ executions = <<>>
  /\ receipt = NoReceipt
  /\ setupDone = FALSE

ListenerIdle ==
  /\ head = [i \in 1..Len(ChainIds) |-> 0]
  /\ chainLogs = [i \in 1..Len(ChainIds) |-> {}]
  /\ parse = NoParse
  /\ posted = <<>>
  /\ enabled = FALSE
  /\ disabled = FALSE
  /\ listeners = [i \in 1..Len(ChainIds) |-> [e \in ChallengeEvents |-> 0]]
  /\ handlers = {}
  /\ delivered = {}

\* the calls of ChannelService.create
MaxCreates == 3
Creates == 1..MaxCreates

NoCreate == [pc |-> "idle", counterpartyXpub |-> "", user |-> 0, error |-> ""]

\* the tables of ChannelService without a row, and no call of create
DbIdle ==
  /\ userTable = <<>>
  /\ channelTable = <<>>
  /\ updateTable = <<>>
  /\ creates = [c \in Creates |-> NoCreate]

\* no SetState commitment has been saved or asked for
CommitIdle ==
  /\ commitmentTable = <<>>
  /\ saving = {}
  /\ latest = [h \in AppIds |-> None]
  /\ got = [appIdentityHash |-> "", result |-> None]

\* the messages connectRequestReponse can be handed
MaxMessages == 3
MessageIds == 1..MaxMessages

NoMessage == [pc |-> "none", reply |-> "", invoked |-> FALSE, outcome |-> ""]

MsgIdle ==
  /\ received = [m \in MessageIds |-> NoMessage]
  /\ published = <<>>

\* the calls of saveUserWithdrawal and removeUserWithdrawal
MaxWithdrawalCalls == 3
WithdrawalCalls == 1..MaxWithdrawalCalls

NoWithdrawalCall ==
  [op |-> "none", pc |-> "idle", arg |-> None, withdrawals |-> <<>>,
   written |-> <<>>]

WdIdle ==
  /\ monitor = <<>>
  /\ wcalls = [c \in WithdrawalCalls |-> NoWithdrawalCall]
  /\ lastWithdrawal = NoWithdrawalCall

\* the hub's services before their first call
ServicesIdle == DbIdle /\ CommitIdle /\ MsgIdle /\ WdIdle

\* nothing but the store and the TakeAction protocol is running
OthersIdle == EngineIdle /\ ContractIdle /\ ListenerIdle /\ ServicesIdle

ProtocolIdle ==
  /\ flow = [p \in Parties |-> NoFlow]
  /\ net = {}
  /\ ops = [p \in Parties |-> <<>>]
  /\ round = 0

\* the schema version the store starts with: none, or the one written by
\* updateSchemaVersion()
StoredSchemaVersions == {None, Some([version |-> STORE_SCHEMA_VERSION])}

StoreInit ==
  /\ \E s \in InitStores, v \in StoredSchemaVersions :
       storage = [p \in Parties |->
                    IF p = Node THEN [s EXCEPT ![SchemaVersionKey] = v]
                    ELSE EmptyStorage]
  /\ call = [p \in Parties |-> NoCall]
  /\ pending = [p \in Parties |-> {}]
  /\ snapshot = storage
  /\ ncalls = 0
  /\ read = NoRead
  /\ ProtocolIdle
  /\ pre = storage
  /\ OthersIdle

StoreNext ==
  \/ \E m \in Multisigs : CallCreateStateChannel(m)
  \/ \E m \in Multisigs, h \in AppIds, v \in Versions : CallCreateAppInstance(m, h, v)
  \/ \E m \in Multisigs, h \in AppIds, v \in Versions : CallUpdateAppInstance(m, h, v)
  \/ \E m \in Multisigs, h \in AppIds, v \in Versions : CallRemoveAppInstance(m, h, v)
  \/ \E m \in Multisigs, h \in AppIds, n \in Nonces : CallCreateAppProposal(m, h, n)
  \/ \E m \in Multisigs, h \in AppIds : CallRemoveAppProposal(m, h)
  \/ \E version \in 0..(STORE_SCHEMA_VERSION + 1) : CallUpdateSchemaVersion(version)
  \/ \E f \in pending[Node] : WriteSettles(Node, f)
  \/ \E f \in pending[Node] : WriteFails(Node, f)
  \/ CatchStep(Node)
  \/ CatchFails(Node)

SpecStore == StoreInit /\ [][StoreNext]_vars

\* the store with a read operation running beside the caller's methods
ReadsNext ==
  \/ StoreNext
  \/ \E r \in ItemReads : ReadItem(r[1], r[2])
  \/ \E r \in ChannelReads : ReadKeys(r[1], r[2])
  \/ ReadRecords

SpecReads == StoreInit /\ [][ReadsNext]_vars

TakeActionInit ==
  /\ storage = [p \in Parties |-> InstalledStore]
  /\ call = [p \in Parties |-> NoCall]
  /\ pending = [p \in Parties |-> {}]
  /\ snapshot = storage
  /\ ncalls = 0
  /\ read = NoRead
  /\ ProtocolIdle
  /\ pre = storage
  /\ OthersIdle

ValidationResults == {None, Some("rejected by middleware")}

TakeActionNext ==
  \/ \E p \in Parties, a \in Actions : Initiate(p, a)
  \/ \E p \in Parties, e \in ValidationResults, ok \in BOOLEAN :
       InitiatorValidated(p, e, ok)
  \/ \E p \in Parties : InitiatorSigned(p)
  \/ \E p \in Parties : InitiatorPersisted(p)
  \/ \E p \in Parties, msg \in net : \E s \in Received(msg) :
       InitiatorReceive(p, msg, s)
  \/ \E p \in Parties : InitiatorTimeout(p)
  \/ \E p \in Parties : InitiatorFinished(p)
  \/ \E p \in Parties, msg \in net : \E s \in Received(msg) :
       ResponderReceive(p, msg, s)
  \/ \E p \in Parties, e \in ValidationResults, ok \in BOOLEAN :
       ResponderValidated(p, e, ok)
  \/ \E p \in Parties : ResponderSigned(p)
  \/ \E p \in Parties : ResponderPersisted(p)
  \/ \E p \in Parties : \E f \in pending[p] : WriteSettles(p, f)
  \/ \E p \in Parties : \E f \in pending[p] : WriteFails(p, f)
  \/ \E p \in Parties : CatchStep(p)
  \/ \E p \in Parties : CatchFails(p)

SpecTakeAction == TakeActionInit /\ [][TakeActionNext]_vars

(***************************************************************************)
(* Properties of the store.                                                *)
(***************************************************************************)
\* the call has returned and nothing it issued is still in flight
Settled(op) ==
  call[Node].op = op /\ call[Node].pc = "returned" /\ pending[Node] = {}

\* a write of the call failed and its catch block has run to its end
FailedAndReverted == call[Node].failed /\ call[Node].reverted

Stored(key) == getItem(storage[Node], key)
StoredBefore(key) == getItem(snapshot[Node], key)
Unchanged(key) == Stored(key) = StoredBefore(key)

\* C1: when a write of createAppInstance has failed and the call has returned
\* (its revert writes done), the channel record is the one stored before the
\* call (the proposal still listed, the app not listed, the old free-balance
\* app), the free-balance SetState commitment is the one stored before the
\* call, and no conditional commitment is stored for the app.
C1_CreateAppInstanceReverts ==
  (/\ Settled("createAppInstance")
   /\ FailedAndReverted
   /\ hasAppIdentityHash(call[Node].h,
                         StoredBefore(ChannelKey(call[Node].m))[1].proposedAppInstances)) =>
     /\ Unchanged(ChannelKey(call[Node].m))
     /\ Unchanged(SetStateKey(call[Node].fbh))
     /\ Stored(ConditionalKey(call[Node].h)) = None

\* C3: when a write of createStateChannel for a new channel has failed, the
\* call rejects and, once every write it issued has settled, the channel
\* record, the setup commitment and the free-balance SetState commitment are
\* as before the call, whatever the order in which the writes settled.
C3_CreateStateChannelAllOrNothing ==
  (/\ Settled("createStateChannel")
   /\ FailedAndReverted
   /\ StoredBefore(ChannelKey(call[Node].m)) = None) =>
     /\ call[Node].outcome = "rejected"
     /\ Unchanged(ChannelKey(call[Node].m))
     /\ Unchanged(SetupKey(call[Node].m))
     /\ Unchanged(SetStateKey(FB))

\* C4: when a write of updateAppInstance or removeAppInstance has failed and
\* the call has returned with its revert writes completed, the channel record
\* and the SetState commitment the call touched are as before the call.
C4_UpdateRemoveRevert ==
  /\ (Settled("updateAppInstance") /\ FailedAndReverted) =>
        /\ Unchanged(ChannelKey(call[Node].m))
        /\ Unchanged(SetStateKey(call[Node].h))
  /\ (Settled("removeAppInstance") /\ FailedAndReverted) =>
        /\ Unchanged(ChannelKey(call[Node].m))
        /\ Unchanged(SetStateKey(FB))

\* C5: a call of createAppInstance, updateAppInstance, removeAppInstance or
\* createAppProposal in which a storage write failed returns rejected.
C5_WriteFailureSurfaces ==
  (/\ call[Node].op \in {"createAppInstance", "updateAppInstance",
                         "removeAppInstance", "createAppProposal"}
   /\ call[Node].pc = "returned"
   /\ call[Node].failed) => call[Node].outcome = "rejected"

(***************************************************************************)
(* Properties of the TakeAction protocol.                                  *)
(***************************************************************************)
OpNames(yielded) == [i \in 1..Len(yielded) |-> yielded[i][1]]
IsPrefix(s, t) == Len(s) <= Len(t) /\ \A i \in 1..Len(s) : s[i] = t[i]

InitiatorOrder ==
  <<"OP_VALIDATE", "OP_SIGN", "PERSIST_APP_INSTANCE", "IO_SEND_AND_WAIT",
    "PERSIST_APP_INSTANCE">>

IsInitiator(p) == flow[p].role = "initiator"
IsResponder(p) == flow[p].role = "responder"

\* the app record and the SetState commitment of the app in a storage
StoredApp(st) ==
  getAppInstance(getStateChannel(st, TakeActionMultisig)[1], TakeActionApp)
StoredCommitment(st) == getSetStateCommitment(st, TakeActionApp)[1]

SignedBy(c, signers) ==
  c.signatures =
    {Sign(getSignerAddressFromPublicIdentifier(p), hashToSign(c)) : p \in signers}

\* C2 as stated: whenever the initiator flow has aborted at validation, at the
\* state transition, on the timeout of the wait or on an invalid responder
\* signature, the app record and the SetState commitment in the initiator's
\* store are those it held when the protocol started.
C2_AbortLeavesStoreIdentical ==
  \A p \in Parties :
    (/\ IsInitiator(p)
     /\ flow[p].pc = "aborted"
     /\ flow[p].error \in {"validation", "transition", "timeout", "signature"}) =>
       /\ StoredApp(storage[p]) = StoredApp(pre[p])
       /\ StoredCommitment(storage[p]) = StoredCommitment(pre[p])

\* C2 amended: an initiator flow that aborts at validation or at the state
\* transition leaves the store as it was when the protocol started; one that
\* aborts on the timeout or on an invalid responder signature leaves the app
\* record with the version number and latest state it had (only latestAction
\* may differ), and the SetState commitment is either the one held at the
\* start or the initiator's single-signed commitment for the next version.
C2_AbortKeepsAppState ==
  \A p \in Parties :
    (IsInitiator(p) /\ flow[p].pc = "aborted") =>
       /\ flow[p].error \in {"validation", "transition"} => storage[p] = pre[p]
       /\ flow[p].error \in {"timeout", "signature"} =>
            /\ [StoredApp(storage[p]) EXCEPT
                  !.latestAction = StoredApp(pre[p]).latestAction] =
                 StoredApp(pre[p])
            /\ \/ StoredCommitment(storage[p]) = StoredCommitment(pre[p])
               \/ /\ StoredCommitment(storage[p]).versionNumber =
                       StoredApp(pre[p]).versionNumber + 1
                  /\ SignedBy(StoredCommitment(storage[p]), {p})

\* an initiator flow has timed out after its first PERSIST took effect
C2_Witness ==
  \E p \in Parties :
    /\ IsInitiator(p) /\ flow[p].pc = "aborted" /\ flow[p].error = "timeout"
    /\ StoredApp(storage[p]).latestAction = Some(flow[p].action)
    /\ SignedBy(StoredCommitment(storage[p]), {p})
    /\ StoredCommitment(storage[p]) # StoredCommitment(pre[p])

\* C6: the opcodes an initiator flow has yielded are, in order, OP_VALIDATE,
\* OP_SIGN, PERSIST, IO_SEND_AND_WAIT, PERSIST; the first PERSIST carries the
\* pre-protocol app with latestAction set to the action and the commitment of
\* the next version signed by the initiator alone; and the initiator's message
\* is in flight only after that PERSIST was yielded.
C6_InitiatorOrder ==
  \A p \in Parties :
    IsInitiator(p) =>
      /\ IsPrefix(OpNames(ops[p]), InitiatorOrder)
      /\ flow[p].pc = "done" => OpNames(ops[p]) = InitiatorOrder
      /\ Len(ops[p]) >= 3 =>
           /\ ops[p][3][2] = setAction(flow[p].preAppInstance[1], flow[p].action)
           /\ ops[p][3][3].versionNumber =
                flow[p].preAppInstance[1].versionNumber + 1
           /\ SignedBy(ops[p][3][3], {p})
      /\ \A msg \in net :
           (msg.from = p /\ msg.processID = flow[p].processID) =>
              /\ Len(ops[p]) >= 4
              /\ ops[p][3][1] = "PERSIST_APP_INSTANCE"
              /\ ops[p][4] = <<"IO_SEND_AND_WAIT", msg.signature>>

\* an initiator flow has run to its end
C6_Witness ==
  \E p \in Parties :
    IsInitiator(p) /\ flow[p].pc = "done" /\ Len(ops[p]) = 5

\* C7: an initiator flow has yielded its second PERSIST only with a reply
\* whose signature recovers to the responder's signer address over the
\* initiator's SetState digest, and that PERSIST carries the app at the next
\* version with a commitment signed by both; a flow that aborted on the
\* signature check has yielded no second PERSIST.
C7_SecondPersistAfterVerify ==
  \A p \in Parties :
    IsInitiator(p) =>
      /\ Len(ops[p]) >= 5 =>
           /\ flow[p].counterpartySignature # None
           /\ recover(hashToSign(getSetStateCommitmentFor(flow[p].appInstance[1])),
                      flow[p].counterpartySignature[1]) =
                getSignerAddressFromPublicIdentifier(flow[p].peer)
           /\ ops[p][5][2] = flow[p].appInstance[1]
           /\ ops[p][5][2].versionNumber =
                flow[p].preAppInstance[1].versionNumber + 1
           /\ SignedBy(ops[p][5][3], {p, flow[p].peer})
      /\ flow[p].error = "signature" => Len(ops[p]) = 4

\* an initiator flow has yielded its second PERSIST
C7_Witness ==
  \E p \in Parties :
    /\ IsInitiator(p) /\ Len(ops[p]) = 5
    /\ ops[p][5][1] = "PERSIST_APP_INSTANCE"
    /\ Cardinality(ops[p][5][3].signatures) = 2

\* the digest a responder computes itself: from the app in its own store and
\* the action of the message
OwnDigest(p) ==
  hashToSign(getSetStateCommitmentFor(
    setState(flow[p].preAppInstance[1],
             computeStateTransition(flow[p].preAppInstance[1], flow[p].action),
             StateTimeout)))

Persists(yielded) ==
  {i \in 1..Len(yielded) : yielded[i][1] = "PERSIST_APP_INSTANCE"}

\* C8: a responder flow has yielded OP_SIGN only when the signature of the
\* initiator's message recovers to the initiator's signer address over the
\* digest the responder computed itself; it yields at most one PERSIST, exactly
\* one when it ends, and that PERSIST carries a commitment signed by both.
C8_ResponderVerifiesFirst ==
  \A p \in Parties :
    IsResponder(p) =>
      /\ (\E i \in 1..Len(ops[p]) : ops[p][i][1] = "OP_SIGN") =>
           recover(OwnDigest(p), flow[p].counterpartySignature[1]) =
             getSignerAddressFromPublicIdentifier(flow[p].peer)
      /\ Cardinality(Persists(ops[p])) <= 1
      /\ flow[p].pc = "done" => Cardinality(Persists(ops[p])) = 1
      /\ \A i \in Persists(ops[p]) : SignedBy(ops[p][i][3], {p, flow[p].peer})

\* a responder flow has run to its end
C8_Witness ==
  \E p \in Parties :
    /\ IsResponder(p) /\ flow[p].pc = "done"
    /\ Cardinality(Persists(ops[p])) = 1

\* both flows of one exchange have ended without an error, and no write of
\* either store is in flight
ExchangeDone(p) ==
  /\ IsInitiator(p) /\ flow[p].pc = "done"
  /\ IsResponder(Peer(p)) /\ flow[Peer(p)].pc = "done"
  /\ flow[Peer(p)].processID = flow[p].processID
  /\ pending[p] = {} /\ pending[Peer(p)] = {}

\* C9: after both flows of an exchange have ended without error, each store
\* holds the app at the pre-protocol version plus one, both with the same
\* latest state, and a SetState commitment of that version signed by both.
C9_BothHoldNewState ==
  \A p \in Parties :
    ExchangeDone(p) =>
      /\ \A q \in Parties :
           /\ StoredApp(storage[q]).versionNumber =
                flow[p].preAppInstance[1].versionNumber + 1
           /\ StoredCommitment(storage[q]).versionNumber =
                StoredApp(storage[q]).versionNumber
           /\ SignedBy(StoredCommitment(storage[q]), Parties)
      /\ StoredApp(storage[p]).latestState =
           StoredApp(storage[Peer(p)]).latestState

\* every SetState commitment of the app that is stored or on its way to a store
CommitmentsOf(p) ==
  {StoredCommitment(storage[p])}
    \cup {f.w.value[1] : f \in {g \in pending[p] :
                                  /\ g.w.key = SetStateKey(TakeActionApp)
                                  /\ g.w.value # None}}

\* C10: every SetState commitment with two signatures that a store holds, or
\* that is being written to it, is signed by the two participants, each over
\* the digest of that commitment.
C10_DoubleSignedByParticipants ==
  \A p \in Parties :
    \A c \in CommitmentsOf(p) :
      Cardinality(c.signatures) = 2 =>
        /\ {s.signer : s \in c.signatures} =
             {getSignerAddressFromPublicIdentifier(q) : q \in Parties}
        /\ \A s \in c.signatures : recover(hashToSign(c), s) = s.signer

\* a store holds a double-signed commitment that a TakeAction run produced
C10_Witness ==
  \E p \in Parties :
    /\ Cardinality(StoredCommitment(storage[p]).signatures) = 2
    /\ StoredCommitment(storage[p]).versionNumber = InitialApp.versionNumber + 1

\* the version number an initiator's signature commits to
SignedVersion(signature) == signature.digest[3]

\* the flow of p answers a message of its peer whose signature commits to a
\* version the app in p's store had already reached when the message came
IsReplay(p) ==
  /\ IsResponder(p)
  /\ flow[p].preAppInstance # None
  /\ flow[p].counterpartySignature[1].signer =
       getSignerAddressFromPublicIdentifier(flow[p].peer)
  /\ SignedVersion(flow[p].counterpartySignature[1]) <=
       flow[p].preAppInstance[1].versionNumber

NO_STATE_CHANNEL_FOR_OWNERS == "NO_STATE_CHANNEL_FOR_OWNERS"

\* the lock names of an invocation; None when getRequiredLockNames throws
getRequiredLockNames(st, publicIdentifier, proposedToIdentifier) ==
  LET json == getStateChannelByOwners(st, <<publicIdentifier, proposedToIdentifier>>)
  IN IF json = None THEN None ELSE Some({json[1].multisigAddress})

\* the method is invoked: getRequiredLockNames
Invoke(i, proposedToIdentifier) ==
  /\ inv[i].pc = "idle"
  /\ LET names == getRequiredLockNames(storage[Node], Node, proposedToIdentifier)
     IN inv' = IF names = None
               THEN [inv EXCEPT ![i].pc = "done", ![i].outcome = "rejected",
                                ![i].proposedToIdentifier = proposedToIdentifier,
                                ![i].error = NO_STATE_CHANNEL_FOR_OWNERS]
               ELSE [inv EXCEPT ![i].pc = "acquire", ![i].names = names[1],
                                ![i].proposedToIdentifier = proposedToIdentifier]
  /\ UNCHANGED <<storeVars, protocolVars, locks, contractVars, listenerVars, serviceVars>>

\* the invocation gets its locks once no other invocation holds one of them
AcquireLock(i) ==
  /\ inv[i].pc = "acquire"
  /\ inv[i].names \cap locks = {}
  /\ locks' = locks \cup inv[i].names
  /\ inv' = [inv EXCEPT ![i].pc = "locked"]
  /\ UNCHANGED <<storeVars, protocolVars, contractVars, listenerVars, serviceVars>>

\* inside the lock: the Propose protocol adds the proposal to the channel it
\* loaded, which raises the channel's monotonicNumProposedApps by one, and its
\* PERSIST calls createAppProposal
PersistProposal(i) ==
  /\ inv[i].pc = "locked"
  /\ LET m == CHOOSE name \in inv[i].names : TRUE
         h == ProposalOf(i)
         channel == getStateChannel(storage[Node], m)
     IN IF channel = None
        THEN Leave(Node, "createAppProposal", m, h, "rejected")
        ELSE IF hasAppIdentityHash(h, channel[1].proposedAppInstances)
        THEN Leave(Node, "createAppProposal", m, h, "rejected")
        ELSE Issue(Node, "createAppProposal", m, h, FB,
                   createAppProposal(storage[Node], m, AppJson(h, 1),
                                     channel[1].monotonicNumProposedApps + 1,
                                     SetStateJson(h, 1)))
  /\ inv' = [inv EXCEPT ![i].pc = "persist"]
  /\ UNCHANGED <<snapshot, ncalls, read, protocolVars, locks, contractVars, listenerVars, serviceVars>>

\* StateChannel.mostRecentlyProposedAppInstance(): the proposal added last
mostRecentlyProposedAppInstance(channel) ==
  channel.proposedAppInstances[Len(channel.proposedAppInstances)][2]

\* the end of executeMethodImplementation once the protocol run is over: the
\* channel is read again and the hash of its most recent proposal returned;
\* None when this throws (no channel, or a channel without proposals)
ProposeInstallResult(st, m) ==
  LET updated == getStateChannel(st, m)
  IN IF updated = None THEN None
     ELSE IF updated[1].proposedAppInstances = <<>> THEN None
     ELSE Some(mostRecentlyProposedAppInstance(updated[1]).identityHash)

\* createAppProposal has returned: the method ends and gives its locks back
ReleaseLock(i) ==
  /\ inv[i].pc = "persist"
  /\ call[Node].pc = "returned"
  /\ Resume(Node)
  /\ locks' = locks \ inv[i].names
  /\ LET m == CHOOSE name \in inv[i].names : TRUE
         result == ProposeInstallResult(storage[Node], m)
     IN inv' = IF call[Node].outcome = "resolved" /\ result = None
               THEN [inv EXCEPT ![i].pc = "done", ![i].outcome = "rejected",
                                ![i].error = "TypeError",
                                ![i].failed = call[Node].failed]
               ELSE [inv EXCEPT ![i].pc = "done", ![i].outcome = call[Node].outcome,
                                ![i].failed = call[Node].failed,
                                ![i].result = IF call[Node].outcome = "resolved"
                                              THEN result ELSE None]
  /\ UNCHANGED <<storage, pending, snapshot, ncalls, read, protocolVars,
               contractVars, listenerVars, serviceVars>>

\* the channel of a store with its userIdentifiers in the other order
OwnersReversed(st) ==
  [st EXCEPT ![ChannelKey("m1")] =
     Some([@[1] EXCEPT !.userIdentifiers = <<"B", "A">>])]

ProposeInit ==
  /\ \E s \in {EmptyStorage, AfterSetup, OwnersReversed(AfterSetup)} :
       storage = [p \in Parties |-> IF p = Node THEN s ELSE EmptyStorage]
  /\ call = [p \in Parties |-> NoCall]
  /\ pending = [p \in Parties |-> {}]
  /\ snapshot = storage
  /\ ncalls = 0
  /\ read = NoRead
  /\ ProtocolIdle
  /\ pre = storage
  /\ OthersIdle

ProposeNext ==
  \/ \E i \in Invocations, to \in {"B", "C"} : Invoke(i, to)
  \/ \E i \in Invocations : AcquireLock(i)
  \/ \E i \in Invocations : PersistProposal(i)
  \/ \E i \in Invocations : ReleaseLock(i)
  \/ \E f \in pending[Node] : WriteSettles(Node, f)
  \/ \E f \in pending[Node] : WriteFails(Node, f)
  \/ CatchStep(Node)
  \/ CatchFails(Node)

SpecProposeInstall == ProposeInit /\ [][ProposeNext]_vars

\* the invocations inside their locks
Holders(name) ==
  {i \in Invocations : inv[i].pc \in {"locked", "persist"} /\ name \in inv[i].names}

\* the proposals of the channel record in the node's store
StoredProposals ==
  LET channel == getStateChannel(storage[Node], "m1")
  IN IF channel = None THEN {}
     ELSE {channel[1].proposedAppInstances[k][1] :
             k \in 1..Len(channel[1].proposedAppInstances)}

\* C12: at most one invocation is inside the lock of a channel, and once the
\* invocations have ended and no write is in flight, the channel record holds
\* the proposal of every invocation whose createAppProposal returned without
\* a failed write: none was overwritten by a write of the other invocation.
C12_NoInterleaving ==
  /\ \A m \in Multisigs : Cardinality(Holders(m)) <= 1
  /\ (/\ \A i \in Invocations : inv[i].pc = "done"
      /\ pending[Node] = {}) =>
        \A i \in Invocations :
          (inv[i].outcome = "resolved" /\ ~inv[i].failed) =>
             ProposalOf(i) \in StoredProposals

(***************************************************************************)
(* Further properties of the store.                                        *)
(***************************************************************************)
\* the identity hashes of a list of [identityHash, app] pairs
HashesOf(list) == {list[k][1] : k \in 1..Len(list)}

\* C13: in every state of the store, whatever calls were made, no identity
\* hash is listed both in appInstances and in proposedAppInstances of a
\* stored channel.
C13_NoHashInBothLists ==
  \A m \in Multisigs :
    LET channel == getStateChannel(storage[Node], m)
    IN channel # None =>
         HashesOf(channel[1].appInstances)
           \cap HashesOf(channel[1].proposedAppInstances) = {}

\* the call that has returned was made with an identity hash that the list
\* `field` of the channel held when the call was made
Duplicate(op, field) ==
  /\ call[Node].op = op /\ call[Node].pc = "returned"
  /\ StoredBefore(ChannelKey(call[Node].m)) # None
  /\ call[Node].h \in HashesOf(StoredBefore(ChannelKey(call[Node].m))[1][field])

\* C14: createAppProposal with an identity hash that is among the channel's
\* proposals, and createAppInstance with one that is among its installed apps,
\* reject and leave every record of the store as it was, with no write in
\* flight.
C14_DuplicateRejected ==
  (\/ Duplicate("createAppProposal", "proposedAppInstances")
   \/ Duplicate("createAppInstance", "appInstances")) =>
     /\ call[Node].outcome = "rejected"
     /\ storage[Node] = snapshot[Node]
     /\ pending[Node] = {}

\* a createAppProposal for a hash that was already proposed has been rejected
C14_Witness ==
  /\ Duplicate("createAppProposal", "proposedAppInstances")
  /\ call[Node].outcome = "rejected"

\* C15: the monotonicNumProposedApps of a stored channel is never smaller
\* than it was when the last call was made, and it is larger once a
\* createAppProposal on the channel has returned normally and its writes have
\* settled.
C15_MonotonicNumProposedApps ==
  \A m \in Multisigs :
    (StoredBefore(ChannelKey(m)) # None /\ Stored(ChannelKey(m)) # None) =>
      /\ Stored(ChannelKey(m))[1].monotonicNumProposedApps >=
           StoredBefore(ChannelKey(m))[1].monotonicNumProposedApps
      /\ (/\ Settled("createAppProposal")
          /\ call[Node].m = m
          /\ call[Node].outcome = "resolved") =>
            Stored(ChannelKey(m))[1].monotonicNumProposedApps >
              StoredBefore(ChannelKey(m))[1].monotonicNumProposedApps

(***************************************************************************)
(* Further properties of the TakeAction protocol.                          *)
(***************************************************************************)
\* C16: no step of a TakeAction run, in either role and whether the run ends
\* normally or by an abort, lowers the versionNumber of the app record in a
\* party's store or the versionNumber of the SetState commitment stored for
\* the app.
C16_VersionNeverDecreases ==
  [][\A p \in Parties :
       /\ StoredApp(storage'[p]).versionNumber >=
            StoredApp(storage[p]).versionNumber
       /\ StoredCommitment(storage'[p]).versionNumber >=
            StoredCommitment(storage[p]).versionNumber]_vars

(***************************************************************************)
(* C17: in both roles of TakeAction, when OP_VALIDATE returns a non-empty  *)
(* reason the flow aborts with an error whose message is exactly that      *)
(* reason, and it has yielded nothing but OP_VALIDATE: no OP_SIGN, no      *)
(* PERSIST_APP_INSTANCE, no IO_SEND and no IO_SEND_AND_WAIT.               *)
(***************************************************************************)
ReturnedReason(p) ==
  flow[p].validated # None /\ flow[p].validated[1] # None

C17_RejectionAbortsWithReason ==
  \A p \in Parties :
    ReturnedReason(p) =>
      /\ flow[p].pc = "aborted"
      /\ flow[p].message = flow[p].validated[1][1]
      /\ \A i \in 1..Len(ops[p]) :
           ops[p][i][1] \notin {"OP_SIGN", "PERSIST_APP_INSTANCE", "IO_SEND",
                                "IO_SEND_AND_WAIT"}

\* the responder's OP_VALIDATE has returned a reason for an action that the
\* initiator's OP_VALIDATE accepted
C17_Witness ==
  \E p \in Parties :
    /\ IsResponder(p) /\ ReturnedReason(p)
    /\ IsInitiator(Peer(p)) /\ flow[Peer(p)].validated = Some(None)

(***************************************************************************)
(* MinimumViableMultisig.sol.  A transaction sent to the wallet either     *)
(* returns, and its writes are kept, or reverts, and the wallet is as it   *)
(* was.  The callee of the inner call is outside the wallet: it returns,   *)
(* reverts, or calls execTransaction again with the same arguments and     *)
(* then returns whatever that call did.  It is taken not to write the      *)
(* wallet's own storage.                                                   *)
(***************************************************************************)
MaxExecutions == 2

\* the keys that sign: those of the addresses 1 and 2, and one of nobody
Signers == 1..3
\* the address recovered from a well-formed signature of another digest
Unrelated == 3
\* a signature of a wrong length, from which recover yields address(0)
Malformed == [signer |-> 0, digest |-> <<>>]

\* ECDSA.recover(hash, signature)
ECDSArecover(hash, signature) ==
  IF signature = Malformed THEN 0
  ELSE IF signature.digest = hash THEN signature.signer
  ELSE Unrelated

\* address(this)
This == "multisig"

Operations == {"Call", "DelegateCall"}
Callees == {"returns", "reverts", "reenters"}

\* the arguments of execTransaction but the signatures
Transactions ==
  [to : {1}, value : {0}, data : {"data"}, operation : Operations,
   domainName : {"name"}, domainVersion : {"version"}, chainId : {1},
   domainSalt : {"salt"}, nonce : {0}]

\* the owner arrays setup is called with: none, one, two in either order, one
\* twice, and address(0) among them
OwnerLists == {<<>>, <<1>>, <<0>>, <<1, 2>>, <<2, 1>>, <<1, 1>>, <<0, 1>>}

getDomainSeparatorHash(domainName, domainVersion, chainId, domainSalt) ==
  <<"keccak256", <<"keccak256", domainName>>, <<"keccak256", domainVersion>>,
    chainId, This, domainSalt>>

getTransactionHash(w, to, value, data, operation, domainSeparatorHash, nonce) ==
  <<"keccak256", "0x19", w.owners, to, value, <<"keccak256", data>>, operation,
    domainSeparatorHash, nonce>>

transactionHashOf(w, tx) ==
  getTransactionHash(w, tx.to, tx.value, tx.data, tx.operation,
                     getDomainSeparatorHash(tx.domainName, tx.domainVersion,
                                            tx.chainId, tx.domainSalt),
                     tx.nonce)

Wallet == [owners |-> owners, isExecuted |-> isExecuted, executions |-> executions]

Reverted(w, reason) == [reverted |-> TRUE, reason |-> reason, wallet |-> w]
Returned(w) == [reverted |-> FALSE, reason |-> "", wallet |-> w]

\* a variant of revert that keeps what the transaction wrote before it failed
revertKeepsWrites(before, written, reason) == Reverted(written, reason)

\* a failed require: the transaction ends and the wallet's storage is what it
\* was before the transaction, whatever was written since
revert(before, written, reason) == Reverted(before, reason)

\* a variant of alreadyExecuted that finds no transaction executed
neverExecuted(w, transactionHash) == FALSE

\* isExecuted[transactionHash]
alreadyExecuted(w, transactionHash) == transactionHash \in w.isExecuted

\* a variant of requireOwner without the comparison with the recovered address
requireOrderOnly(owner, transactionHash, signature, lastSigner) ==
  IF ~(owner > lastSigner) THEN "Signers not in alphanumeric order" ELSE ""

\* the two requirements of one round of the loop over _owners: the reason of
\* the first that fails, "" when both hold
requireOwner(owner, transactionHash, signature, lastSigner) ==
  IF owner # ECDSArecover(transactionHash, signature) THEN "Invalid signature"
  ELSE IF ~(owner > lastSigner) THEN "Signers not in alphanumeric order"
  ELSE ""

\* the loop over _owners from index i on; signatures[i] beyond the end of the
\* array is an invalid opcode
RECURSIVE requireOwners(_, _, _, _, _)
requireOwners(w, transactionHash, signatures, i, lastSigner) ==
  IF i > Len(w.owners) THEN ""
  ELSE IF i > Len(signatures) THEN "invalid opcode"
  ELSE LET failure == requireOwner(w.owners[i], transactionHash, signatures[i],
                                   lastSigner)
       IN IF failure # "" THEN failure
          ELSE requireOwners(w, transactionHash, signatures, i + 1, w.owners[i])

RECURSIVE execTransaction(_, _, _, _)

\* execute(to, value, data, operation) with the callee's behaviour
execute(w, tx, signatures, callee) ==
  IF callee = "reverts"
  THEN Reverted(w, IF tx.operation = "Call" THEN "executeCall failed"
                   ELSE "executeDelegateCall failed")
  ELSE LET called ==
             [w EXCEPT !.executions =
                Append(@, [hash |-> transactionHashOf(w, tx), tx |-> tx])]
       IN IF callee = "reenters"
          THEN Returned(execTransaction(called, tx, signatures, "returns").wallet)
          ELSE Returned(called)

execTransaction(w, tx, signatures, callee) ==
  LET transactionHash == transactionHashOf(w, tx)
  IN IF alreadyExecuted(w, transactionHash)
     THEN Reverted(w, "Transacation has already been executed")
     ELSE LET marked == [w EXCEPT !.isExecuted = @ \cup {transactionHash}]
              failure == requireOwners(marked, transactionHash, signatures, 1, 0)
          IN IF failure # ""
             THEN revert(w, marked, failure)
             ELSE LET result == execute(marked, tx, signatures, callee)
                  IN IF result.reverted THEN revert(w, marked, result.reason)
                     ELSE result

\* the signatures a sender may supply for a transaction: of its hash by each
\* key, of the hash of the transaction with the next nonce, and a malformed
\* one
SignaturesFor(w, tx) ==
  LET h == transactionHashOf(w, tx)
      other == transactionHashOf(w, [tx EXCEPT !.nonce = tx.nonce + 1])
      each == {Sign(a, h) : a \in Signers} \cup {Sign(1, other), Malformed}
  IN {<<>>} \cup [1..1 -> each] \cup [1..2 -> each]

\* a transaction calls setup(owners)
Setup(newOwners) ==
  /\ IF Len(owners) # 0
     THEN /\ receipt' = [NoReceipt EXCEPT !.op = "setup", !.owners = owners,
                                          !.reverted = TRUE,
                                          !.reason = "Contract has been set up before",
                                          !.executions = executions]
          /\ UNCHANGED <<owners, setupDone>>
     ELSE /\ owners' = newOwners
          /\ setupDone' = TRUE
          /\ receipt' = [NoReceipt EXCEPT !.op = "setup", !.owners = owners,
                                          !.executions = executions]
  /\ UNCHANGED <<isExecuted, executions>>
  /\ UNCHANGED <<storeVars, protocolVars, engineVars, listenerVars, serviceVars>>

\* a transaction calls execTransaction
ExecTransaction(tx, signatures, callee) ==
  /\ Len(executions) < MaxExecutions
  /\ LET result == execTransaction(Wallet, tx, signatures, callee)
     IN /\ owners' = result.wallet.owners
        /\ isExecuted' = result.wallet.isExecuted
        /\ executions' = result.wallet.executions
        /\ receipt' = [op |-> "execTransaction", tx |-> tx,
                       signatures |-> signatures, callee |-> callee,
                       owners |-> owners,
                       hash |-> transactionHashOf(Wallet, tx),
                       reverted |-> result.reverted, reason |-> result.reason,
                       executions |-> executions]
  /\ UNCHANGED setupDone
  /\ UNCHANGED <<storeVars, protocolVars, engineVars, listenerVars, serviceVars>>

\* the node with no call, no flow and no method running
NodeIdle ==
  /\ storage = [p \in Parties |-> EmptyStorage]
  /\ call = [p \in Parties |-> NoCall]
  /\ pending = [p \in Parties |-> {}]
  /\ snapshot = storage
  /\ ncalls = 0
  /\ read = NoRead
  /\ ProtocolIdle
  /\ pre = storage
  /\ EngineIdle

MultisigInit == NodeIdle /\ ContractIdle /\ ListenerIdle /\ ServicesIdle

MultisigNext ==
  \/ \E newOwners \in OwnerLists : Setup(newOwners)
  \/ \E tx \in Transactions, callee \in Callees :
       \E signatures \in SignaturesFor(Wallet, tx) :
         ExecTransaction(tx, signatures, callee)

SpecMultisig == MultisigInit /\ [][MultisigNext]_vars

ProperlySigned(ownerList, hash, signatures) ==
  \A i \in 1..Len(ownerList) :
    /\ i <= Len(signatures)
    /\ signatures[i] = Sign(ownerList[i], hash)
    /\ ownerList[i] > (IF i = 1 THEN 0 ELSE ownerList[i - 1])

C19_ExecutesOnlyIfSigned ==
  receipt.op = "execTransaction" =>
    /\ ~receipt.reverted =>
         ProperlySigned(receipt.owners, receipt.hash, receipt.signatures)
    /\ ~ProperlySigned(receipt.owners, receipt.hash, receipt.signatures) =>
         /\ receipt.reverted
         /\ executions = receipt.executions
         /\ isExecuted = {executions[i].hash : i \in 1..Len(executions)}

\* both owners have signed, in the order of their addresses, but the wallet
\* holds the owners in descending order: the transaction has reverted
C19_Witness ==
  /\ receipt.op = "execTransaction"
  /\ Len(receipt.owners) = 2
  /\ receipt.owners[1] > receipt.owners[2]
  /\ receipt.signatures =
       <<Sign(receipt.owners[2], receipt.hash),
         Sign(receipt.owners[1], receipt.hash)>>
  /\ receipt.reverted

(***************************************************************************)
(* ChainListener.parseLogsFrom.  Each chain has a head block and the logs  *)
(* of its ChallengeRegistry; the call runs from one await to the next.     *)
(***************************************************************************)
chunkSize == 30
MaxParses == 2
MaxNewBlocks == 1

ChallengeUpdated == "ChallengeUpdated"
StateProgressed == "StateProgressed"

ChainIndexes == 1..Len(ChainIds)

\* the logs the registry of either chain emits, by block and event name
RegistryLogs ==
  {[block |-> 0, name |-> ChallengeUpdated],
   [block |-> 1, name |-> StateProgressed],
   [block |-> 30, name |-> StateProgressed],
   [block |-> 31, name |-> ChallengeUpdated],
   [block |-> 2, name |-> ChallengeUpdated],
   [block |-> 32, name |-> StateProgressed]}

LogsUpTo(block) == {l \in RegistryLogs : l.block <= block}

\* the heads a chain starts with, and the arguments of parseLogsFrom
InitialHeads == {1, 31}
StartingBlocks == {0, 2, 32}

\* provider.getLogs({...filter, fromBlock, toBlock}): the logs of the event in
\* the range, in block order
RECURSIVE getLogs(_, _, _, _)
getLogs(logs, name, fromBlock, toBlock) ==
  IF fromBlock > toBlock THEN <<>>
  ELSE (IF [block |-> fromBlock, name |-> name] \in logs
        THEN <<[block |-> fromBlock, name |-> name]>> ELSE <<>>)
       \o getLogs(logs, name, fromBlock + 1, toBlock)

\* Math.ceil(n / chunkSize) for n >= 0
CeilChunks(n) == (n + chunkSize - 1) \div chunkSize

PastCurrentBlock == "Cannot parse events past current block"

\* what the forEach over progressedLogs.concat(updatedLogs) posts: each log
\* on the channel of its event name
RECURSIVE PostAll(_, _, _)
PostAll(logs, chain, id) ==
  IF logs = <<>> THEN <<>>
  ELSE <<[channel |-> Head(logs).name, chain |-> chain,
          block |-> Head(logs).block, call |-> id]>>
       \o PostAll(Tail(logs), chain, id)

MaxHandlers == 1

\* attach, attachOnce and waitFor
HandlerKinds == {"attach", "attachOnce", "waitFor"}

\* evt.post of each of the events, in order: every handler attached to the
\* channel of an event is called with it, and a handler of attachOnce or
\* waitFor is detached by its first event
Deliver(events) ==
  LET channels == {events[i].channel : i \in 1..Len(events)}
      called == {h \in handlers : h.channel \in channels}
  IN /\ delivered' = delivered \cup
                        {[kind |-> h.kind, enabled |-> enabled, disabled |-> disabled] :
                           h \in called}
     /\ handlers' = handlers \ {h \in called : h.kind # "attach"}

\* what the callbacks registered on the registry of chain c post for the logs
\* of a new block: each callback posts the event on the channel of its name
RECURSIVE Repeat(_, _)
Repeat(e, n) == IF n = 0 THEN <<>> ELSE <<e>> \o Repeat(e, n - 1)

LiveEvents(c, block, name) ==
  IF [block |-> block, name |-> name] \in RegistryLogs
  THEN Repeat([channel |-> name, chain |-> c, block |-> block, call |-> 0],
              listeners[c][name])
  ELSE <<>>

\* a variant of enable() that does not look at the flag
EnableUnguarded ==
  /\ listeners' = [c \in ChainIndexes |->
                     [e \in ChallengeEvents |-> listeners[c][e] + 1]]
  /\ enabled' = TRUE
  /\ disabled' = FALSE
  /\ UNCHANGED <<head, chainLogs, parse, posted, handlers, delivered>>
  /\ UNCHANGED <<storeVars, protocolVars, engineVars, contractVars, serviceVars>>

\* enable()
Enable ==
  /\ IF enabled
     THEN UNCHANGED <<enabled, disabled, listeners>>
     ELSE /\ listeners' = [c \in ChainIndexes |->
                             [e \in ChallengeEvents |-> listeners[c][e] + 1]]
          /\ enabled' = TRUE
          /\ disabled' = FALSE
  /\ UNCHANGED <<head, chainLogs, parse, posted, handlers, delivered>>
  /\ UNCHANGED <<storeVars, protocolVars, engineVars, contractVars, serviceVars>>

\* disable()
Disable ==
  /\ IF ~enabled
     THEN UNCHANGED <<enabled, listeners, handlers>>
     ELSE /\ handlers' = {}
          /\ listeners' = [c \in ChainIndexes |-> [e \in ChallengeEvents |-> 0]]
          /\ enabled' = FALSE
  /\ disabled' = TRUE
  /\ UNCHANGED <<head, chainLogs, parse, posted, delivered>>
  /\ UNCHANGED <<storeVars, protocolVars, engineVars, contractVars, serviceVars>>

\* attach, attachOnce or waitFor of a handler on the channel of an event
Attach(event, kind) ==
  /\ Cardinality(handlers) < MaxHandlers
  /\ handlers' = handlers \cup {[channel |-> event, kind |-> kind]}
  /\ UNCHANGED <<head, chainLogs, parse, posted, enabled, disabled, listeners, delivered>>
  /\ UNCHANGED <<storeVars, protocolVars, engineVars, contractVars, serviceVars>>

\* parseLogsFrom(startingBlock) is called
ParseLogsFrom(startingBlock) ==
  /\ parse.pc \in {"idle", "done", "failed"}
  /\ parse.id < MaxParses
  /\ parse' = [NoParse EXCEPT !.pc = "getBlockNumber", !.id = parse.id + 1,
                              !.startingBlock = startingBlock, !.chain = 1]
  /\ UNCHANGED <<head, chainLogs, posted, enabled, disabled, listeners, handlers, delivered>>
  /\ UNCHANGED <<storeVars, protocolVars, engineVars, contractVars, serviceVars>>

\* getBlockNumber of the chain has returned: the check of startingBlock
GetBlockNumber ==
  /\ parse.pc = "getBlockNumber"
  /\ LET currentBlock == head[parse.chain]
     IN IF parse.startingBlock > currentBlock
        THEN parse' = [parse EXCEPT !.pc = "failed", !.currentBlock = currentBlock,
                                    !.error = PastCurrentBlock]
        ELSE parse' = [parse EXCEPT
                         !.pc = "getLogs", !.currentBlock = currentBlock,
                         !.nChunks = CeilChunks(currentBlock - parse.startingBlock),
                         !.index = 0, !.updatedLogs = <<>>,
                         !.progressedLogs = <<>>]
  /\ UNCHANGED <<head, chainLogs, posted, enabled, disabled, listeners, handlers, delivered>>
  /\ UNCHANGED <<storeVars, protocolVars, engineVars, contractVars, serviceVars>>

\* a variant of GetLogs whose chunk ends on the first block of the next chunk
GetLogsOverlapping ==
  /\ parse.pc = "getLogs"
  /\ LET fromBlock == parse.startingBlock + parse.index * chunkSize
         nextChunk == parse.startingBlock + (parse.index + 1) * chunkSize
         toBlock == IF nextChunk >= parse.currentBlock THEN parse.currentBlock
                    ELSE nextChunk
         newUpdatedLogs ==
           getLogs(chainLogs[parse.chain], ChallengeUpdated, fromBlock, toBlock)
         newProgressedLogs ==
           getLogs(chainLogs[parse.chain], StateProgressed, fromBlock, toBlock)
     IN parse' = [parse EXCEPT
                    !.updatedLogs = @ \o newUpdatedLogs,
                    !.progressedLogs = @ \o newProgressedLogs,
                    !.queries = Append(@, <<parse.chain, fromBlock, toBlock>>),
                    !.index = parse.index + 1,
                    !.pc = IF toBlock = parse.currentBlock
                              \/ parse.index + 1 > parse.nChunks
                           THEN "post" ELSE "getLogs"]
  /\ UNCHANGED <<head, chainLogs, posted, enabled, disabled, listeners, handlers, delivered>>
  /\ UNCHANGED <<storeVars, protocolVars, engineVars, contractVars, serviceVars>>

\* one round of the loop over the chunks: both getLogs calls have returned
GetLogs ==
  /\ parse.pc = "getLogs"
  /\ LET fromBlock == parse.startingBlock + parse.index * chunkSize
         nextChunk == parse.startingBlock + (parse.index + 1) * chunkSize - 1
         toBlock == IF nextChunk >= parse.currentBlock THEN parse.currentBlock
                    ELSE nextChunk
         newUpdatedLogs ==
           getLogs(chainLogs[parse.chain], ChallengeUpdated, fromBlock, toBlock)
         newProgressedLogs ==
           getLogs(chainLogs[parse.chain], StateProgressed, fromBlock, toBlock)
     IN parse' = [parse EXCEPT
                    !.updatedLogs = @ \o newUpdatedLogs,
                    !.progressedLogs = @ \o newProgressedLogs,
                    !.queries = Append(@, <<parse.chain, fromBlock, toBlock>>),
                    !.index = parse.index + 1,
                    !.pc = IF toBlock = parse.currentBlock
                              \/ parse.index + 1 > parse.nChunks
                           THEN "post" ELSE "getLogs"]
  /\ UNCHANGED <<head, chainLogs, posted, enabled, disabled, listeners, handlers, delivered>>
  /\ UNCHANGED <<storeVars, protocolVars, engineVars, contractVars, serviceVars>>

\* a variant of concatLogs that puts the ChallengeUpdated logs first
concatUpdatedFirst(progressedLogs, updatedLogs) == updatedLogs \o progressedLogs

\* progressedLogs.concat(updatedLogs)
concatLogs(progressedLogs, updatedLogs) == progressedLogs \o updatedLogs

\* the logs of the chain are parsed and posted, and the loop over the chains
\* goes on
PostLogs ==
  /\ parse.pc = "post"
  /\ posted' = posted \o PostAll(concatLogs(parse.progressedLogs, parse.updatedLogs),
                                 parse.chain, parse.id)
  /\ Deliver(PostAll(concatLogs(parse.progressedLogs, parse.updatedLogs),
                     parse.chain, parse.id))
  /\ parse' = IF parse.chain < Len(ChainIds)
              THEN [parse EXCEPT !.pc = "getBlockNumber", !.chain = parse.chain + 1]
              ELSE [parse EXCEPT !.pc = "done"]
  /\ UNCHANGED <<head, chainLogs, enabled, disabled, listeners>>
  /\ UNCHANGED <<storeVars, protocolVars, engineVars, contractVars, serviceVars>>

\* a call of the provider rejects
ProviderFails ==
  /\ parse.pc \in {"getBlockNumber", "getLogs"}
  /\ parse' = [parse EXCEPT !.pc = "failed", !.error = "provider error"]
  /\ UNCHANGED <<head, chainLogs, posted, enabled, disabled, listeners, handlers, delivered>>
  /\ UNCHANGED <<storeVars, protocolVars, engineVars, contractVars, serviceVars>>

\* a chain gets a new block, and the callbacks registered on its registry
\* are called with the logs of the block
NewBlock(c) ==
  /\ \E h \in InitialHeads : h <= head[c] /\ head[c] < h + MaxNewBlocks
  /\ head' = [head EXCEPT ![c] = @ + 1]
  /\ chainLogs' = [chainLogs EXCEPT ![c] = LogsUpTo(head[c] + 1)]
  /\ LET events == LiveEvents(c, head[c] + 1, StateProgressed)
                     \o LiveEvents(c, head[c] + 1, ChallengeUpdated)
     IN posted' = posted \o events /\ Deliver(events)
  /\ UNCHANGED <<parse, enabled, disabled, listeners>>
  /\ UNCHANGED <<storeVars, protocolVars, engineVars, contractVars, serviceVars>>

ListenerInit ==
  /\ NodeIdle
  /\ ServicesIdle
  /\ ContractIdle
  /\ head \in [ChainIndexes -> InitialHeads]
  /\ chainLogs = [c \in ChainIndexes |-> LogsUpTo(head[c])]
  /\ parse = NoParse
  /\ posted = <<>>
  /\ enabled = FALSE
  /\ disabled = FALSE
  /\ listeners = [c \in ChainIndexes |-> [e \in ChallengeEvents |-> 0]]
  /\ handlers = {}
  /\ delivered = {}

ListenerNext ==
  \/ \E startingBlock \in StartingBlocks : ParseLogsFrom(startingBlock)
  \/ GetBlockNumber
  \/ GetLogs
  \/ PostLogs
  \/ ProviderFails
  \/ \E c \in ChainIndexes : NewBlock(c)

SpecListener == ListenerInit /\ [][ListenerNext]_vars

\* the listener switched on and off while the chains grow and handlers are
\* registered
RegistryListenersNext ==
  \/ Enable
  \/ Disable
  \/ \E event \in ChallengeEvents, kind \in HandlerKinds : Attach(event, kind)
  \/ \E c \in ChainIndexes : NewBlock(c)

SpecRegistryListeners == ListenerInit /\ [][RegistryListenersNext]_vars

\* the listener with handlers on its channels: both chains at block 31, logs
\* parsed from that block on
HandlersInit ==
  /\ NodeIdle
  /\ ServicesIdle
  /\ ContractIdle
  /\ head = [c \in ChainIndexes |-> 31]
  /\ chainLogs = [c \in ChainIndexes |-> LogsUpTo(head[c])]
  /\ parse = NoParse
  /\ posted = <<>>
  /\ enabled = FALSE
  /\ disabled = FALSE
  /\ listeners = [c \in ChainIndexes |-> [e \in ChallengeEvents |-> 0]]
  /\ handlers = {}
  /\ delivered = {}

HandlersNext ==
  \/ ParseLogsFrom(31)
  \/ GetBlockNumber
  \/ GetLogs
  \/ PostLogs
  \/ \E c \in ChainIndexes : NewBlock(c)
  \/ Enable
  \/ Disable
  \/ \E event \in ChallengeEvents, kind \in HandlerKinds : Attach(event, kind)

SpecHandlers == HandlersInit /\ [][HandlersNext]_vars

(***************************************************************************)
(* Properties of the chain listener.                                       *)
(***************************************************************************)
\* C20: when parseLogsFrom(startingBlock) finds startingBlock above the
\* current head of a configured chain, the first or a later one, it fails
\* and has posted no event on either channel.
C20_PastHeadPostsNothing ==
  (parse.pc = "failed" /\ parse.error = PastCurrentBlock) =>
    \A i \in 1..Len(posted) : posted[i].call # parse.id

\* the block ranges the call has queried on a chain, in the order of the
\* queries
RECURSIVE QueriesOf(_, _)
QueriesOf(queries, c) ==
  IF queries = <<>> THEN <<>>
  ELSE (IF Head(queries)[1] = c THEN <<<<Head(queries)[2], Head(queries)[3]>>>>
        ELSE <<>>) \o QueriesOf(Tail(queries), c)

\* the chains whose logs the call has fetched and posted
Parsed(c) ==
  /\ parse.pc # "idle"
  /\ c < parse.chain \/ (c = parse.chain /\ parse.pc = "done")

PostedBy(id, c) == {i \in 1..Len(posted) : posted[i].call = id /\ posted[i].chain = c}

\* C21: for a startingBlock at or below the head the call reads, the block
\* ranges parseLogsFrom queries on a chain span at most 30 blocks each, ascend
\* without overlap or gap from startingBlock to that head, and every log of
\* the registry in the range is posted exactly once, on the channel of its
\* event name, and nothing else is posted.
C21_ChunksCoverRangeOnce ==
  /\ parse.pc = "post" =>
       LET q == QueriesOf(parse.queries, parse.chain)
       IN /\ Len(q) >= 1
          /\ q[1][1] = parse.startingBlock
          /\ q[Len(q)][2] = parse.currentBlock
          /\ \A i \in 1..Len(q) :
               /\ q[i][1] <= q[i][2]
               /\ q[i][2] - q[i][1] + 1 <= 30
               /\ i > 1 => q[i][1] = q[i - 1][2] + 1
  /\ \A c \in ChainIndexes :
       Parsed(c) =>
         LET q == QueriesOf(parse.queries, c)
             inRange == {l \in chainLogs[c] :
                           l.block >= parse.startingBlock
                           /\ l.block <= q[Len(q)][2]}
         IN /\ \A l \in inRange :
                 Cardinality({i \in PostedBy(parse.id, c) :
                                posted[i].block = l.block
                                /\ posted[i].channel = l.name}) = 1
            /\ \A i \in PostedBy(parse.id, c) :
                 [block |-> posted[i].block, name |-> posted[i].channel]
                   \in inRange

\* a call has ended after it fetched the first chain in two chunks and posted
\* a log of each
C21_Witness ==
  /\ parse.pc = "done"
  /\ LET q == QueriesOf(parse.queries, 1)
     IN /\ Len(q) = 2
        /\ \E i, j \in PostedBy(parse.id, 1) :
             /\ posted[i].block <= q[1][2]
             /\ posted[j].block >= q[2][1]

\* C22: after any sequence of enable and disable calls, every (chain, event)
\* pair has exactly one callback registered on the registry when the last
\* effective call was enable, and none when it was disable or when there was
\* none: a second enable registers nothing more, and a second disable
\* changes nothing.
C22_EnableDisableIdempotent ==
  \A c \in ChainIndexes, e \in ChallengeEvents :
    listeners[c][e] = IF enabled THEN 1 ELSE 0

\* the listener has been enabled, has posted the event of a new block once,
\* and has been disabled
C22_Witness ==
  /\ ~enabled
  /\ \A c \in ChainIndexes, e \in ChallengeEvents : listeners[c][e] = 0
  /\ Cardinality({i \in 1..Len(posted) : posted[i].call = 0}) = 1

\* C23: updateSchemaVersion with a version lower than the stored one fails
\* and leaves the stored schema version as it was, so the stored schema
\* version never goes down: it is never below what it was when the last
\* call was made.
C23_SchemaVersionNeverDecreases ==
  getSchemaVersion(storage[Node]) >= getSchemaVersion(snapshot[Node])

\* the multisig addresses of the stored channels between the node and the
\* identifier, whatever the order of the two in the record
ChannelsWith(to) ==
  {m \in Multisigs :
     /\ getStateChannel(storage[Node], m) # None
     /\ Range(getStateChannel(storage[Node], m)[1].userIdentifiers) = {Node, to}}

C25_MissingRecordReadsUndefined ==
  (read.pc = "done" /\ read.absent) => read.outcome = "undefined"

\* the app instances a flow holds: the one it read, the same with the action
\* set on it, and the one the action leads to
AppInstancesOf(p) ==
  (IF flow[p].preAppInstance = None THEN {}
   ELSE {flow[p].preAppInstance[1],
         setAction(flow[p].preAppInstance[1], flow[p].action)})
    \cup (IF flow[p].appInstance = None THEN {} ELSE {flow[p].appInstance[1]})

\* the packed encoding the digest is the keccak256 of
ExpectedHashToSign(app) ==
  <<"0x19", app.identityHash, app.versionNumber, app.stateTimeout,
    <<"keccak256", app.latestState>>>>

SameDigestInputs(a, b) ==
  /\ a.identityHash = b.identityHash /\ a.versionNumber = b.versionNumber
  /\ a.stateTimeout = b.stateTimeout /\ a.latestState = b.latestState

C27_DoubleSignedCommitmentRetained ==
  \A p \in Parties :
    LET c == getSetStateCommitment(storage[p], TakeActionApp)
    IN c # None /\ Cardinality(c[1].signatures) = 2

\* C28: the hash chan_proposeInstall returns is the identityHash of the
\* proposal that this invocation created, and the channel the invocation
\* locked lists it in proposedAppInstances.
C28_ReturnsOwnProposal ==
  \A i \in Invocations :
    inv[i].result # None =>
      /\ inv[i].result[1] = ProposalOf(i)
      /\ \E m \in inv[i].names :
           /\ getStateChannel(storage[Node], m) # None
           /\ hasAppIdentityHash(
                ProposalOf(i), getStateChannel(storage[Node], m)[1].proposedAppInstances)

\* both invocations have returned a hash, the second with two proposals in
\* the channel
C28_Witness ==
  /\ \A i \in Invocations : inv[i].result # None
  /\ Len(getStateChannel(storage[Node], "m1")[1].proposedAppInstances) = 2

\* C29: after disable() has returned and until enable() is called again, no
\* event is delivered to a handler registered through attach, attachOnce or
\* waitFor.
C29_DisabledDeliversNothing == \A d \in delivered : ~d.disabled

\* C30: a createAppInstance whose writes all took effect leaves in
\* proposedAppInstances the proposals the channel held before, without the
\* one of the installed app and with every other, also when the channel held
\* no proposal of the installed app.
C30_RemovesOnlyInstalledProposal ==
  (/\ call[Node].op = "createAppInstance" /\ call[Node].pc = "returned"
   /\ call[Node].outcome = "resolved" /\ ~call[Node].failed
   /\ pending[Node] = {}) =>
    HashesOf(getStateChannel(storage[Node], call[Node].m)[1].proposedAppInstances)
      = HashesOf(StoredBefore(ChannelKey(call[Node].m))[1].proposedAppInstances)
          \ {call[Node].h}

\* C31: once a call of setup has succeeded, every later call of setup
\* reverts and the owner list never changes again, whatever owner list the
\* first call was given.
C31_SetupTakesEffectOnce ==
  [][setupDone =>
       /\ owners' = owners
       /\ receipt'.op = "setup" => receipt'.reverted]_vars

\* C32: a wallet whose owner list is empty makes no inner call: an
\* execTransaction sent to it reverts.
C32_NoOwnersNoExecution ==
  (receipt.op = "execTransaction" /\ receipt.owners = <<>>) =>
    receipt.reverted /\ executions = receipt.executions

\* the signatures of every owner, in the order of the owner list
SignedByOwners(hash) == [i \in 1..Len(owners) |-> Sign(owners[i], hash)]

\* the owner list ascends strictly from address(0)
OwnersAscend ==
  \A i \in 1..Len(owners) : owners[i] > (IF i = 1 THEN 0 ELSE owners[i - 1])

\* C33: an execTransaction that reverts records no transaction hash as
\* executed and makes no inner call, so that the same arguments with the
\* signatures of the owners execute afterwards.
C33_RevertRecordsNothing ==
  (receipt.op = "execTransaction" /\ receipt.reverted) =>
    /\ executions = receipt.executions
    /\ isExecuted = {executions[i].hash : i \in 1..Len(executions)}
    /\ (/\ receipt.reason # "Transacation has already been executed"
        /\ receipt.owners = owners
        /\ OwnersAscend) =>
         ~execTransaction(Wallet, receipt.tx, SignedByOwners(receipt.hash),
                          "returns").reverted

\* a transaction signed by both owners has reverted in its inner call, and
\* its hash is not recorded
C33_Witness ==
  /\ receipt.op = "execTransaction" /\ receipt.reverted
  /\ receipt.reason \in {"executeCall failed", "executeDelegateCall failed"}
  /\ Len(owners) = 2 /\ receipt.owners = owners
  /\ receipt.hash \notin isExecuted

\* C34: when the TakeAction responder has sent its reply, its store holds the
\* app at the version the action led to and the commitment of that version
\* with both signatures: the reply is sent only after a PERSIST_APP_INSTANCE
\* that took effect, and not after one that failed.
C34_ResponderPersistsBeforeReply ==
  \A p \in Parties :
    (flow[p].role = "responder" /\ flow[p].pc = "done") =>
      /\ StoredApp(storage[p]).versionNumber = flow[p].appInstance[1].versionNumber
      /\ getSetStateCommitment(storage[p], TakeActionApp)
           = flow[p].setStateCommitment

(***************************************************************************)
(* ChannelService.create (channel.service.ts).  The rows of a table are    *)
(* kept in the order of their insertion; the generated id of a row is its  *)
(* position.  A call reads the user outside its transaction, awaits the    *)
(* node twice and saves its three rows when the transaction commits.       *)
(***************************************************************************)
Xpubs == {"xpubA", "xpubB"}

CHANNEL_ALREADY_EXISTS == "Channel already exists for user"

\* userRepository.findByXpub: the id of the user's row, 0 when there is none
findByXpub(xpub) ==
  IF \E i \in 1..Len(userTable) : userTable[i].xpub = xpub
  THEN CHOOSE i \in 1..Len(userTable) :
         /\ userTable[i].xpub = xpub
         /\ \A j \in 1..(i - 1) : userTable[j].xpub # xpub
  ELSE 0

\* user.channels of a row of the user table
channelsOfUser(id) == {i \in 1..Len(channelTable) : channelTable[i].user = id}

\* the channels of the users with one xpub
channelsOfXpub(xpub) ==
  {i \in 1..Len(channelTable) : userTable[channelTable[i].user].xpub = xpub}

\* the database with a user that has no channel yet
UserWithoutChannel(xpub) ==
  /\ userTable = <<[xpub |-> xpub]>>
  /\ channelTable = <<>>
  /\ updateTable = <<>>
  /\ creates = [c \in Creates |-> NoCreate]

\* create up to the check of user.channels: the user is read, or made when
\* there is none, and the call throws when the user has a channel
CreateFind(c, counterpartyXpub) ==
  /\ creates[c].pc = "idle"
  /\ LET user == findByXpub(counterpartyXpub)
     IN creates' = [creates EXCEPT ![c] =
          IF user # 0 /\ channelsOfUser(user) # {}
          THEN [pc |-> "failed", counterpartyXpub |-> counterpartyXpub,
                user |-> user, error |-> CHANNEL_ALREADY_EXISTS]
          ELSE [pc |-> "dispatch", counterpartyXpub |-> counterpartyXpub,
                user |-> user, error |-> ""]]
  /\ UNCHANGED <<userTable, channelTable, updateTable>>
  /\ UNCHANGED <<exceptServices, commitVars, msgVars, wdVars>>

\* the two requests to the node, CREATE_CHANNEL and
\* GET_STATE_DEPOSIT_HOLDER_ADDRESS, have been answered
CreateDispatched(c) ==
  /\ creates[c].pc = "dispatch"
  /\ creates' = [creates EXCEPT ![c].pc = "save"]
  /\ UNCHANGED <<userTable, channelTable, updateTable>>
  /\ UNCHANGED <<exceptServices, commitVars, msgVars, wdVars>>

\* the three saves and the commit of the transaction: a user made by the call
\* is inserted, one read from the table is updated
CreateSave(c) ==
  /\ creates[c].pc = "save"
  /\ LET inserted == creates[c].user = 0
         user == IF inserted THEN Len(userTable) + 1 ELSE creates[c].user
         channel == Len(channelTable) + 1
     IN /\ userTable' = IF inserted
                        THEN Append(userTable, [xpub |-> creates[c].counterpartyXpub])
                        ELSE userTable
        /\ channelTable' = Append(channelTable, [user |-> user])
        /\ updateTable' = Append(updateTable, [channel |-> channel, nonce |-> 0])
        /\ creates' = [creates EXCEPT ![c].pc = "done", ![c].user = user]
  /\ UNCHANGED <<exceptServices, commitVars, msgVars, wdVars>>

ChannelServiceInit ==
  /\ NodeIdle
  /\ ContractIdle
  /\ ListenerIdle
  /\ CommitIdle
  /\ MsgIdle
  /\ WdIdle
  /\ \/ DbIdle
     \/ \E xpub \in Xpubs : UserWithoutChannel(xpub)

ChannelServiceNext ==
  \/ \E c \in Creates, xpub \in Xpubs : CreateFind(c, xpub)
  \/ \E c \in Creates : CreateDispatched(c)
  \/ \E c \in Creates : CreateSave(c)

SpecChannelService == ChannelServiceInit /\ [][ChannelServiceNext]_vars

\* C35: whatever calls of ChannelService.create have run, one after another or
\* at the same time, no counterparty xpub has more than one channel.
C35_AtMostOneChannelPerUser ==
  \A xpub \in Xpubs : Cardinality(channelsOfXpub(xpub)) <= 1

(***************************************************************************)
(* SetStateCommitmentRepository (commitment.repository.ts).  A row of the  *)
(* table holds the app it belongs to and the commitment's versionNumber;   *)
(* the rows are kept in the order of their insertion.                      *)
(***************************************************************************)
MaxSaves == 3

\* setStateToJson, of the fields the model keeps
setStateToJson(entity) ==
  [appIdentityHash |-> entity.app, versionNumber |-> entity.versionNumber]

\* the rows findByAppIdentityHash selects from: those of the app
rowsOfApp(appIdentityHash) ==
  {i \in 1..Len(commitmentTable) : commitmentTable[i].app = appIdentityHash}

\* what getLatestSetStateCommitment can return: undefined without a row of the
\* app, else the row getOne() picks, which the query does not order
getLatestSetStateCommitment(appIdentityHash) ==
  IF rowsOfApp(appIdentityHash) = {}
  THEN {None}
  ELSE {Some(setStateToJson(commitmentTable[i])) : i \in rowsOfApp(appIdentityHash)}

\* the saves that are neither in flight nor in the table
freeSaves ==
  (1..MaxSaves) \ ({e.save : e \in saving}
                     \cup {commitmentTable[i].save : i \in 1..Len(commitmentTable)})

\* saveLatestSetStateCommitment: a new entity is handed to save(), which is
\* not awaited, and the call resolves
SaveLatestSetStateCommitment(app, versionNumber) ==
  /\ freeSaves # {}
  /\ LET commitmentEntity ==
           [save |-> CHOOSE n \in freeSaves : \A k \in freeSaves : n <= k,
            app |-> app, versionNumber |-> versionNumber]
     IN /\ saving' = saving \cup {commitmentEntity}
        /\ latest' = [latest EXCEPT ![app] = Some(setStateToJson(commitmentEntity))]
  /\ UNCHANGED <<commitmentTable, got>>
  /\ UNCHANGED <<exceptServices, dbVars, msgVars, wdVars>>

\* the INSERT of a save() reaches the table
CommitmentInserted(entity) ==
  /\ entity \in saving
  /\ saving' = saving \ {entity}
  /\ commitmentTable' = Append(commitmentTable, entity)
  /\ UNCHANGED <<latest, got>>
  /\ UNCHANGED <<exceptServices, dbVars, msgVars, wdVars>>

\* the promise of a save() rejects; nothing awaits it
CommitmentInsertFails(entity) ==
  /\ entity \in saving
  /\ saving' = saving \ {entity}
  /\ UNCHANGED <<commitmentTable, latest, got>>
  /\ UNCHANGED <<exceptServices, dbVars, msgVars, wdVars>>

\* a call of getLatestSetStateCommitment
GetLatestSetStateCommitment(appIdentityHash) ==
  /\ \E result \in getLatestSetStateCommitment(appIdentityHash) :
       got' = [appIdentityHash |-> appIdentityHash, result |-> result]
  /\ UNCHANGED <<commitmentTable, saving, latest>>
  /\ UNCHANGED <<exceptServices, dbVars, msgVars, wdVars>>

CommitmentInit ==
  /\ NodeIdle
  /\ ContractIdle
  /\ ListenerIdle
  /\ ServicesIdle

CommitmentNext ==
  \/ \E app \in AppIds, v \in Versions : SaveLatestSetStateCommitment(app, v)
  \/ \E entity \in saving : CommitmentInserted(entity)
  \/ \E entity \in saving : CommitmentInsertFails(entity)
  \/ \E h \in AppIds : GetLatestSetStateCommitment(h)

SpecCommitment == CommitmentInit /\ [][CommitmentNext]_vars

\* C36: a getLatestSetStateCommitment that follows a resolved
\* saveLatestSetStateCommitment of the app returns the commitment of that save.
C36_GetReturnsLatestSaved ==
  \A h \in AppIds :
    latest[h] # None => getLatestSetStateCommitment(h) = {latest[h]}

\* C37: parseLogsFrom posts nothing for a chain while it is fetching the
\* chain's chunks, and nothing if a fetch fails; what it posts for the chain
\* is every StateProgressed log, in ascending block order, and after them the
\* ChallengeUpdated logs.
C37_PostsAfterFetchingProgressedFirst ==
  /\ parse.pc \in {"getBlockNumber", "getLogs", "post", "failed"} =>
       PostedBy(parse.id, parse.chain) = {}
  /\ \A id \in 1..MaxParses, chain \in ChainIndexes :
       \A i, j \in PostedBy(id, chain) :
         i < j =>
           /\ ~(posted[i].channel = ChallengeUpdated
                  /\ posted[j].channel = StateProgressed)
           /\ (posted[i].channel = StateProgressed
                 /\ posted[j].channel = StateProgressed) =>
                posted[i].block < posted[j].block

\* a call that fetched two chunks has posted a StateProgressed log of a later
\* block before a ChallengeUpdated log of an earlier one
C37_Witness ==
  /\ Len(parse.queries) >= 2
  /\ \E i, j \in PostedBy(parse.id, parse.chain) :
       /\ i < j
       /\ posted[i].channel = StateProgressed
       /\ posted[j].channel = ChallengeUpdated
       /\ posted[i].block > posted[j].block

(***************************************************************************)
(* AbstractMessagingProvider.connectRequestReponse (messaging.ts).  The    *)
(* callback it subscribes is run for every message of the pattern; the     *)
(* await of the processor is its one point of suspension.                  *)
(***************************************************************************)
\* the reply subjects of the messages; a message without reply has none
ReplySubjects == {"", "_INBOX.1", "_INBOX.2"}

\* what the processor returns, and the text of what it throws
ProcessorResponse == "response"
ProcessorError == "Error: processor failed"

\* a variant of hasReply that takes every message for a request
replyNotChecked(msg) == TRUE

\* if (msg.reply)
hasReply(msg) == msg.reply # ""

\* messaging.publish(subject, data), with the message the data answers
publish(m, subject, data) ==
  published' = Append(published, [msg |-> m, subject |-> subject, data |-> data])

\* the callback is called with a message: the processor is called if the
\* message has a reply subject, and the callback ends if it has none
ReceiveMessage(m, reply) ==
  /\ received[m].pc = "none"
  /\ LET msg == [reply |-> reply]
     IN received' = [received EXCEPT ![m] =
          IF hasReply(msg)
          THEN [pc |-> "processing", reply |-> reply, invoked |-> TRUE,
                outcome |-> ""]
          ELSE [pc |-> "done", reply |-> reply, invoked |-> FALSE,
                outcome |-> ""]]
  /\ UNCHANGED published
  /\ UNCHANGED <<exceptServices, dbVars, commitVars, wdVars>>

\* the processor has returned, or its promise has resolved
ProcessorReturns(m) ==
  /\ received[m].pc = "processing"
  /\ publish(m, received[m].reply, [err |-> None, response |-> ProcessorResponse])
  /\ received' = [received EXCEPT ![m].pc = "done", ![m].outcome = "returned"]
  /\ UNCHANGED <<exceptServices, dbVars, commitVars, wdVars>>

\* the processor has thrown, or its promise has rejected
ProcessorThrows(m) ==
  /\ received[m].pc = "processing"
  /\ publish(m, received[m].reply,
             [err |-> Some(ProcessorError),
              message |-> "Error during processor function"])
  /\ received' = [received EXCEPT ![m].pc = "done", ![m].outcome = "threw"]
  /\ UNCHANGED <<exceptServices, dbVars, commitVars, wdVars>>

MessagingInit ==
  /\ NodeIdle
  /\ ContractIdle
  /\ ListenerIdle
  /\ ServicesIdle

MessagingNext ==
  \/ \E m \in MessageIds, reply \in ReplySubjects : ReceiveMessage(m, reply)
  \/ \E m \in MessageIds : ProcessorReturns(m)
  \/ \E m \in MessageIds : ProcessorThrows(m)

SpecMessaging == MessagingInit /\ [][MessagingNext]_vars

\* what has been published in answer to a message
PublishedFor(m) == {i \in 1..Len(published) : published[i].msg = m}

WithdrawalTxs == {[data |-> "d1", to |-> "t1"], [data |-> "d1", to |-> "t2"]}

\* the objects the callers hold
WithdrawalObjects ==
  {[tx |-> tx, ref |-> ref] : tx \in WithdrawalTxs, ref \in 1..2}

\* x === y of two objects
sameObject(x, y) == x.ref # 0 /\ x.ref = y.ref /\ x.tx = y.tx

\* a variant of sameTx that compares the objects
sameTxObject(x, withdrawalObject) == sameObject(x, withdrawalObject)

\* x.tx.data === withdrawalObject.tx.data && x.tx.to === withdrawalObject.tx.to
sameTx(x, withdrawalObject) ==
  x.tx.data = withdrawalObject.tx.data /\ x.tx.to = withdrawalObject.tx.to

\* withdrawals.findIndex(x => ...), 0-based, -1 when there is none
findWithdrawalIndex(withdrawals, withdrawalObject) ==
  IF \E i \in 1..Len(withdrawals) : sameTx(withdrawals[i], withdrawalObject)
  THEN (CHOOSE i \in 1..Len(withdrawals) :
          /\ sameTx(withdrawals[i], withdrawalObject)
          /\ \A j \in 1..(i - 1) : ~sameTx(withdrawals[j], withdrawalObject)) - 1
  ELSE -1

\* withdrawals.filter(x => x !== toRemove)
RECURSIVE filterNot(_, _)
filterNot(withdrawals, toRemove) ==
  IF withdrawals = <<>> THEN <<>>
  ELSE (IF sameObject(Head(withdrawals), toRemove) THEN <<>>
        ELSE <<Head(withdrawals)>>)
       \o filterNot(Tail(withdrawals), toRemove)

\* getUserWithdrawals: the stored list, [] when the item is missing or empty;
\* the storage hands out the objects it was given or copies of them
getUserWithdrawals(copies) ==
  IF copies
  THEN [i \in 1..Len(monitor) |-> [monitor[i] EXCEPT !.ref = 0]]
  ELSE monitor

\* the list saveUserWithdrawal passes to setItem
savedWithdrawals(withdrawals, withdrawalObject) ==
  LET idx == findWithdrawalIndex(withdrawals, withdrawalObject)
  IN IF idx = -1 THEN withdrawals \o <<withdrawalObject>>
     ELSE setAt(withdrawals, idx, withdrawalObject)

\* saveUserWithdrawal or removeUserWithdrawal is called and has read the list;
\* the calls are numbered in the order they are made
CallUserWithdrawal(c, op, arg, copies) ==
  /\ wcalls[c].pc = "idle"
  /\ \A b \in 1..(c - 1) : wcalls[b].pc # "idle"
  /\ wcalls' = [wcalls EXCEPT ![c] =
       [op |-> op, pc |-> "setItem", arg |-> Some(arg),
        withdrawals |-> getUserWithdrawals(copies), written |-> <<>>]]
  /\ UNCHANGED <<monitor, lastWithdrawal>>
  /\ UNCHANGED <<exceptServices, dbVars, commitVars, msgVars>>

\* the setItem of the call has written the list
UserWithdrawalWritten(c) ==
  /\ wcalls[c].pc = "setItem"
  /\ LET updated ==
           IF wcalls[c].op = "saveUserWithdrawal"
           THEN savedWithdrawals(wcalls[c].withdrawals, wcalls[c].arg[1])
           ELSE filterNot(wcalls[c].withdrawals, wcalls[c].arg[1])
         ended == [wcalls[c] EXCEPT !.pc = "done", !.written = updated]
     IN /\ monitor' = updated
        /\ wcalls' = [wcalls EXCEPT ![c] = [NoWithdrawalCall EXCEPT !.pc = "ended"]]
        /\ lastWithdrawal' = ended
  /\ UNCHANGED <<exceptServices, dbVars, commitVars, msgVars>>

\* the setItem of the call is rejected
UserWithdrawalWriteFails(c) ==
  /\ wcalls[c].pc = "setItem"
  /\ wcalls' = [wcalls EXCEPT ![c] = [NoWithdrawalCall EXCEPT !.pc = "ended"]]
  /\ UNCHANGED <<monitor, lastWithdrawal>>
  /\ UNCHANGED <<exceptServices, dbVars, commitVars, msgVars>>

WithdrawalInit ==
  /\ NodeIdle
  /\ ContractIdle
  /\ ListenerIdle
  /\ ServicesIdle

WithdrawalNext ==
  \/ \E c \in WithdrawalCalls, w \in WithdrawalObjects, copies \in BOOLEAN :
       CallUserWithdrawal(c, "saveUserWithdrawal", w, copies)
  \/ \E c \in WithdrawalCalls, w \in WithdrawalObjects, copies \in BOOLEAN :
       CallUserWithdrawal(c, "removeUserWithdrawal", w, copies)
  \/ \E c \in WithdrawalCalls : UserWithdrawalWritten(c)
  \/ \E c \in WithdrawalCalls : UserWithdrawalWriteFails(c)

SpecWithdrawals == WithdrawalInit /\ [][WithdrawalNext]_vars

\* the positions of a list that hold a withdrawal of one (tx.data, tx.to)
EntriesOf(withdrawals, tx) ==
  {i \in 1..Len(withdrawals) : withdrawals[i].tx = tx}

\* C39: the monitor list never holds two entries of one (tx.data, tx.to); a
\* saveUserWithdrawal of a withdrawal that the list it has read holds writes that
\* list with the entry replaced in its place, and one of a withdrawal it does
\* not hold writes the list with the withdrawal added at the end.
C39_OneEntryPerWithdrawal ==
  /\ \A tx \in WithdrawalTxs : Cardinality(EntriesOf(monitor, tx)) <= 1
  /\ lastWithdrawal.op = "saveUserWithdrawal" =>
       LET listed == lastWithdrawal.withdrawals
           w == lastWithdrawal.arg[1]
           written == lastWithdrawal.written
       IN IF EntriesOf(listed, w.tx) # {}
          THEN /\ Len(written) = Len(listed)
               /\ \A i \in 1..Len(listed) :
                    written[i] = IF listed[i].tx = w.tx THEN w ELSE listed[i]
          ELSE written = listed \o <<w>>

\* a saveUserWithdrawal has replaced the entry of a withdrawal by another
\* object in a list of two
C39_Witness ==
  /\ lastWithdrawal.op = "saveUserWithdrawal"
  /\ Len(lastWithdrawal.withdrawals) = 2
  /\ \E i \in EntriesOf(lastWithdrawal.withdrawals, lastWithdrawal.arg[1].tx) :
       lastWithdrawal.withdrawals[i] # lastWithdrawal.arg[1]
  /\ monitor = lastWithdrawal.written

\* C40: a removeUserWithdrawal of an object with the content of an entry of
\* the list it has read writes the list without that entry and with the other
\* entries as they were.
C40_RemoveByContent ==
  lastWithdrawal.op = "removeUserWithdrawal" =>
    LET listed == lastWithdrawal.withdrawals
        w == lastWithdrawal.arg[1]
        written == lastWithdrawal.written
    IN /\ EntriesOf(written, w.tx) = {}
       /\ \A tx \in WithdrawalTxs \ {w.tx} :
            {written[i] : i \in EntriesOf(written, tx)}
              = {listed[i] : i \in EntriesOf(listed, tx)}

====
